---- MODULE Spec2Model ----
(***************************************************************************)
(* Ottoscaler: the pipeline scheduler (pipeline.Executor), the worker      *)
(* lifecycle manager (worker.Manager) and the ExecutePipeline RPC          *)
(* (grpc.Server), modelled as concurrent processes over a pod cluster.     *)
(*                                                                         *)
(* Every ExecutePipeline call c owns one Executor; the executor's          *)
(* goroutines (executePipeline, one executeStage per stage of a level,     *)
(* one CreateAndWaitForWorker per worker) are the processes of the model.  *)
(* The cluster API (create / get / delete pod) is the environment: each    *)
(* call can succeed or return an error, and pods move through their        *)
(* phases on their own.                                                    *)
(***************************************************************************)
EXTENDS Integers, Sequences, FiniteSets, TLC

\* ------------------------------------------------------------------ bounds
\* Largest worker_count of a stage.
MaxWorkers == 2
\* Largest retry_policy.max_attempts of a stage.
MaxAttempts == 1
\* Most pods a one-stage request may create over all attempts of its stage.
MaxPods == 4
\* Most pods a two-stage request without retry may create.
MaxDagPods == 2
\* Most pods a chained two-stage request with retry may create.
MaxChainPods == 3
\* Capacity of the progress channel. The code buffers 100 events
\* (make(chan *pb.PipelineProgress, 100)); the model scales the buffer down
\* so that a small pipeline can fill it.
ProgressCap == 5

\* ------------------------------------------------------------- input sets
Calls == {"c1", "c2"}
PipelineIds == {"p", "q"}
StageIds == {"a", "b"}
DagStageIds == {"a", "b", "c"}
NoPolicy == -1
\* A nil *pb.PipelineRequest, and the absence of a call.
NilReq == [nil |-> TRUE, call |-> TRUE]
NoCall == [nil |-> TRUE, call |-> FALSE]

\* A pipeline request: id, the stage ids present, and per stage its
\* depends_on set, worker_count and retry_policy.max_attempts (NoPolicy when
\* the stage has no retry policy). Stage ids are unique within a request.
MkReq(id, ss, deps, wc, retry) ==
    [nil |-> FALSE, call |-> TRUE, id |-> id, stages |-> ss, deps |-> deps,
     wc |-> wc, retry |-> retry]

\* Retries a stage may make: none without a policy.
Retries(r, s) == IF r.retry[s] = NoPolicy THEN 0 ELSE r.retry[s]

\* The pods a request creates when every attempt of every stage runs.
RECURSIVE PodBudget(_, _)
PodBudget(r, ss) ==
    IF ss = {} THEN 0
    ELSE LET s == CHOOSE x \in ss : TRUE
         IN r.wc[s] * (1 + Retries(r, s)) + PodBudget(r, ss \ {s})

\* One-stage requests: stage "a" with every depends_on set over StageIds (the
\* self edge and the unknown id "b" included), every worker count and every
\* retry policy within the bounds.
OneStageRequests ==
    { r \in { MkReq("p", {"a"}, deps, wc, retry) :
                deps \in [{"a"} -> SUBSET StageIds],
                wc \in [{"a"} -> 0..MaxWorkers],
                retry \in [{"a"} -> {NoPolicy} \cup 0..MaxAttempts] } :
        PodBudget(r, r.stages) <= MaxPods }

\* Two-stage requests without retry: stages "a" and "b" with every
\* dependency graph over them (independent, chained either way, cyclic, self
\* edges) and at least one worker each.
TwoStageRequests ==
    { r \in { MkReq("p", {"a", "b"}, deps, wc, [a |-> NoPolicy, b |-> NoPolicy]) :
                deps \in [{"a", "b"} -> SUBSET StageIds],
                wc \in [{"a", "b"} -> 1..MaxWorkers] } :
        PodBudget(r, r.stages) <= MaxDagPods }

\* Chained requests with retry: "b" depends on "a", and "a" carries a retry
\* policy that retries.
ChainRequests ==
    { r \in { MkReq("p", {"a", "b"}, [a |-> {}, b |-> {"a"}], wc, [a |-> ra, b |-> NoPolicy]) :
                wc \in [{"a", "b"} -> 1..MaxWorkers],
                ra \in 1..MaxAttempts } :
        PodBudget(r, r.stages) <= MaxChainPods }

ExecRequests == OneStageRequests \cup TwoStageRequests \cup ChainRequests

\* Requests for the dependency analysis: every non-empty stage set over
\* DagStageIds with every depends_on map into DagStageIds (self edges, cycles
\* and ids that are not stages included), one worker per stage, no retry.
DagRequests ==
    UNION { { MkReq("p", ss, deps, [s \in ss |-> 1], [s \in ss |-> NoPolicy]) :
                deps \in [ss -> SUBSET DagStageIds] } :
            ss \in (SUBSET DagStageIds) \ {{}} }

\* Requests that ExecutePipeline refuses before any lookup: a nil request,
\* an empty pipeline id, an empty stage list.
InvalidRequests ==
    { NilReq,
      MkReq("", {"a"}, [a |-> {}], [a |-> 1], [a |-> NoPolicy]),
      MkReq("p", {}, <<>>, <<>>, <<>>) }

\* Requests of concurrent callers: one stage, one worker, any pipeline id.
ServerRequests ==
    { MkReq(id, {"a"}, [a |-> {}], [a |-> 1], [a |-> NoPolicy]) : id \in PipelineIds }

\* ---------------------------------------------------- buildExecutionOrder
\* inDegree is a Go map: a function whose domain is the set of keys present.
\* inDegree[otherID]-- on an absent key inserts it with value -1.
\* A decrement that releases the stage at once, whatever its in-degree.
MapDecRelease(inDegree, k) ==
    [x \in DOMAIN inDegree \cup {k} |-> IF x = k THEN 0 ELSE inDegree[x]]

MapDec(inDegree, k) ==
    IF k \in DOMAIN inDegree
    THEN [inDegree EXCEPT ![k] = @ - 1]
    ELSE [x \in DOMAIN inDegree \cup {k} |-> IF x = k THEN -1 ELSE inDegree[x]]

MapDelete(inDegree, k) == [x \in DOMAIN inDegree \ {k} |-> inDegree[x]]

\* The inner loop of one level member: for every stage whose depends_on
\* holds stageID, decrease its in-degree.
RECURSIVE DecDependents(_, _, _, _)
DecDependents(inDegree, dependencies, others, stageID) ==
    IF others = {} THEN inDegree
    ELSE LET o == CHOOSE x \in others : TRUE
             next == IF stageID \in dependencies[o] THEN MapDec(inDegree, o) ELSE inDegree
         IN DecDependents(next, dependencies, others \ {o}, stageID)

\* "for _, stageID := range currentLevel": delete the member, then decrease
\* its dependents.
RECURSIVE RemoveLevel(_, _, _)
RemoveLevel(inDegree, dependencies, todo) ==
    IF todo = {} THEN inDegree
    ELSE LET s == CHOOSE x \in todo : TRUE
         IN RemoveLevel(
                DecDependents(MapDelete(inDegree, s), dependencies, DOMAIN dependencies, s),
                dependencies, todo \ {s})

RECURSIVE OrderLoop(_, _, _, _)
OrderLoop(inDegree, dependencies, remaining, order) ==
    IF remaining <= 0 THEN [ok |-> TRUE, order |-> order]
    ELSE LET currentLevel == {s \in DOMAIN inDegree : inDegree[s] = 0}
         IN IF currentLevel = {} THEN [ok |-> FALSE, order |-> <<>>]
            ELSE OrderLoop(RemoveLevel(inDegree, dependencies, currentLevel),
                           dependencies, remaining - Cardinality(currentLevel),
                           Append(order, currentLevel))

\* A scheduler that skips the dependency analysis: one level, no cycle error.
buildExecutionOrderFlat(r) == [ok |-> TRUE, order |-> <<r.stages>>]

\* A level is the set of its stage ids: the code appends them in Go's map
\* iteration order, which executeLevel does not depend on.
buildExecutionOrder(r) ==
    LET dependencies == [s \in r.stages |-> r.deps[s]]
        inDegree == [s \in r.stages |-> Cardinality(r.deps[s])]
    IN OrderLoop(inDegree, dependencies, Cardinality(r.stages), <<>>)

\* ------------------------------------------------------------------ state
PodNames == PipelineIds \X DagStageIds \X (1..MaxWorkers)
\* Pod phases as the manager reads them. Pending and Running are one phase,
\* "Active": WaitForPodCompletion keeps polling on both.
Phases == {"Active", "Succeeded", "Failed"}
PipelineLevel == ""
NoEvent == [stageId |-> PipelineLevel, status |-> "NONE", names |-> <<>>]

VARIABLES
    \* grpc.Server
    req,                \* the request of each ExecutePipeline call
    callpc,             \* where each call stands in Server.ExecutePipeline
    callResult,         \* the status code the call returned
    pipelineExecutors,  \* Server.pipelineExecutors: pipeline id -> owning call
    lastSent,           \* the last event stream.Send delivered to the caller
    progress,           \* the event the send loop has received and is sending
    \* pipeline.Executor of each call
    stageOrder,         \* Executor.stageOrder
    stageStatus,        \* StageInfo.Status
    retryCount,         \* StageInfo.RetryCount
    workerPodNames,     \* StageInfo.WorkerPodNames (worker indexes)
    progressStream,     \* buffered content of Executor.progressStream
    closed,             \* progressStream has been closed
    cancelled,          \* the pipeline context is done
    epc,                \* executePipeline goroutine
    level,              \* index of the level being executed
    spc,                \* executeStage goroutine of each stage
    stageErr,           \* the error executeStage returned
    \* worker.Manager: one CreateAndWaitForWorker per worker
    wpc,
    wres,               \* result of WaitForPodCompletion
    wdel,               \* result of CleanupPod
    \* the cluster
    pods,               \* pod name -> phase, "None" when the pod does not exist
    \* observation
    emitCount,          \* events handed to sendProgress / sendStageProgress
    emitFirst,          \* the first of them
    emitLast,           \* the last of them
    emitTerminal,       \* pipeline-level COMPLETED / FAILED events among them
    stageLast,          \* per stage, the status of its last event
    attempts,           \* executeStage entries per stage
    created,            \* pods created per stage
    deleteIssued,       \* DeletePod calls per stage
    deleted,            \* DeletePod calls that succeeded per stage
    allPodFailed        \* every worker so far ended on an observed Failed phase

VARIABLES
    \* grpc.LogStreamingServer
    sessions,           \* the StreamingSession objects, by session number
    \* one StreamLogs call per stream
    lpc,                \* where the call stands in its receive loop
    lctx,               \* stream.Context() is done
    cur,                \* currentSession (0: nil)
    entry,              \* the log entry being processed
    tmp,                \* the LogCount read by "LogCount++"
    attempt,            \* the loop variable of forwardLogEntryWithRetry
    recvd,              \* entries received on the stream so far
    resp,               \* the response the last step produced, if any
    \* observation
    acks              \* per session, the number of ACK responses queued

VARIABLES
    \* Server.ScaleUp and the batch it starts
    scaleReq,           \* the ScaleRequest of the call
    scaleResp,          \* what the call returned
    scaleCtx,           \* the context of the call is done
    scalepc,            \* where the call stands: "call", "launched", "returned"
    bpc,                \* per worker of the batch, where CreateAndWaitForWorker is
    bres,               \* per worker, what CreateAndWaitForWorker returned
    bdel,               \* per worker, the outcome of its cleanup
    bpods,              \* per worker, the phase of its pod ("None": no pod)
    results,            \* the results channel: workers whose status is queued
    received,           \* statuses taken from the channel
    failureCount,       \* failureCount of RunMultipleWorkers
    errors,             \* the workers named in errors, in order
    batchRet            \* what RunMultipleWorkers returned

VARIABLES
    \* grpc.OttoHandlerClient
    mockMode,           \* c.mockMode
    logStreams,         \* the LogStream objects, by number
    forwardCalls,       \* per caller, where its ForwardLogEntry call is
    egressRet           \* what the last call on the client returned

VARIABLES
    \* createWorkerConfigs of the executor and of the server
    nameReq,            \* the ids and worker count the configs are made from
    names               \* WorkerConfig.Name of the configs returned

VARIABLES
    \* the response path of StreamLogs, per call
    slpc,               \* where the receive loop of the call is
    sctx,               \* stream.Context() is done
    responseChan,       \* responses queued on responseChan, not yet taken
    rpc,                \* where the response goroutine is
    currentSession,     \* the session bound to the call: none, active, inactive
    sent                \* responses stream.Send has delivered

VARIABLES
    \* the session map under the periodic sweep, with its clock
    now,                \* time.Now(), in ticks of ten minutes
    timedSessions       \* s.sessions with CreatedAt and IsActive

VARIABLES
    \* Manager.CreateAndWaitForWorker, per call, with the gateway's answers
    mpc,                \* where the call is: create, wait, done
    mpod,               \* the phase of the call's pod
    mctx,               \* the caller's context is done
    getPodErrors,       \* errors GetPod has returned to the wait
    mret                \* what the call returned

VARIABLES
    \* StreamLogs calls bound to one session, with the locks they take
    kpc,                \* per stream: where its StreamLogs call is
    kentry,             \* per stream: the entry of the current turn
    kloaded,            \* per stream: the LogCount its "LogCount++" has read
    krecvd,             \* entries received over all streams
    sessionMu,          \* the holder of the session's own mutex
    serverMu,           \* the holder of the server's mutex s.mu
    boundSession,       \* the fields of the session
    panicked            \* the process died of a runtime panic

VARIABLES
    \* Server.Start
    startpc             \* where Start is: serving, stopping, returned

VARIABLES
    \* LogStreamingServer.sessions over repeated registrations
    regSessions,        \* the sessions created so far, in creation order
    regStatus           \* the status of the last RegistrationResponse

serverVars == <<req, callpc, callResult, pipelineExecutors, lastSent, progress>>
execVars == <<stageOrder, stageStatus, retryCount, workerPodNames, progressStream,
              closed, cancelled, epc, level, spc, stageErr>>
workerVars == <<wpc, wres, wdel>>
emitVars == <<emitCount, emitFirst, emitLast, emitTerminal, stageLast>>
countVars == <<attempts, created, deleteIssued, deleted, allPodFailed>>
histVars == <<emitVars, countVars>>
schedVars == <<serverVars, execVars, workerVars, pods, histVars>>
streamVars == <<lpc, lctx, cur, entry, tmp, attempt, recvd>>
logVars == <<sessions, resp, streamVars, acks>>
batchVars == <<bpc, bres, bdel, bpods, results, received, failureCount, errors,
               batchRet>>
scaleVars == <<scaleReq, scaleResp, scaleCtx, scalepc, batchVars>>
\* The state of the services beside the pipeline scheduler.
egressVars == <<mockMode, logStreams, forwardCalls, egressRet>>
nameVars == <<nameReq, names>>
respVars == <<slpc, sctx, responseChan, rpc, currentSession, sent>>
sweepVars == <<now, timedSessions>>
mgrVars == <<mpc, mpod, mctx, getPodErrors, mret>>
boundVars == <<kpc, kentry, kloaded, krecvd, sessionMu, serverMu, boundSession, panicked>>
startVars == <<startpc>>
registryVars == <<regSessions, regStatus>>
sideVars == <<logVars, scaleVars, egressVars, nameVars, respVars, sweepVars, mgrVars, boundVars, startVars, registryVars>>
\* What the log streaming service leaves alone.
notLogVars == <<schedVars, scaleVars, egressVars, nameVars, respVars, sweepVars, mgrVars, boundVars, startVars, registryVars>>
\* What ScaleUp and its batch leave alone.
notScaleVars == <<schedVars, logVars, egressVars, nameVars, respVars, sweepVars, mgrVars, boundVars, startVars, registryVars>>
\* What the egress client leaves alone.
notEgressVars == <<schedVars, logVars, scaleVars, nameVars, respVars, sweepVars, mgrVars, boundVars, startVars, registryVars>>
\* What createWorkerConfigs leaves alone.
notNameVars == <<schedVars, logVars, scaleVars, egressVars, respVars, sweepVars, mgrVars, boundVars, startVars, registryVars>>
\* What the response path of StreamLogs leaves alone.
notRespVars == <<schedVars, logVars, scaleVars, egressVars, nameVars, sweepVars, mgrVars, boundVars, startVars, registryVars>>
\* What the sweep of the session map leaves alone.
notSweepVars == <<schedVars, logVars, scaleVars, egressVars, nameVars, respVars, mgrVars, boundVars, startVars, registryVars>>
\* What a CreateAndWaitForWorker call followed by itself leaves alone.
notMgrVars == <<schedVars, logVars, scaleVars, egressVars, nameVars, respVars, sweepVars, boundVars, startVars, registryVars>>
\* What the streams bound to one session leave alone.
notBoundVars == <<schedVars, logVars, scaleVars, egressVars, nameVars, respVars, sweepVars, mgrVars, startVars, registryVars>>
\* What Server.Start leaves alone.
notStartVars == <<schedVars, logVars, scaleVars, egressVars, nameVars, respVars, sweepVars, mgrVars, boundVars, registryVars>>
\* What the registrations of workers leave alone.
notRegistryVars == <<schedVars, logVars, scaleVars, egressVars, nameVars, respVars, sweepVars, mgrVars, boundVars, startVars>>
vars == <<schedVars, sideVars>>

\* The log streaming service takes no part: no session, no stream.
LogOff ==
    /\ sessions = <<>> /\ acks = <<>>
    /\ lpc = <<>> /\ lctx = <<>> /\ cur = <<>> /\ entry = <<>>
    /\ tmp = <<>> /\ attempt = <<>> /\ recvd = <<>> /\ resp = <<>>

\* No ScaleUp call is made: no request, no batch.
ScaleOff ==
    /\ scaleReq = <<>> /\ scaleResp = <<>> /\ scaleCtx = FALSE /\ scalepc = "none"
    /\ bpc = <<>> /\ bres = <<>> /\ bdel = <<>> /\ bpods = <<>>
    /\ results = <<>> /\ received = 0 /\ failureCount = 0 /\ errors = <<>>
    /\ batchRet = "none"

\* The egress client is not in use: no outbound stream.
EgressOff ==
    mockMode = FALSE /\ logStreams = <<>> /\ forwardCalls = <<>> /\ egressRet = "none"

\* No worker configs are being made.
NameOff == nameReq = [kind |-> "none"] /\ names = <<>>

\* No StreamLogs call is followed on its response path.
RespOff ==
    /\ slpc = <<>> /\ sctx = <<>> /\ responseChan = <<>> /\ rpc = <<>>
    /\ currentSession = <<>> /\ sent = <<>>

\* The session map is not followed with its clock.
SweepOff == now = 0 /\ timedSessions = <<>>

\* No CreateAndWaitForWorker call is followed by itself.
ManagerOff ==
    /\ mpc = <<>> /\ mpod = <<>> /\ mctx = <<>> /\ getPodErrors = <<>> /\ mret = <<>>

\* No stream bound to a session is followed.
BoundOff ==
    /\ kpc = <<>> /\ kentry = <<>> /\ kloaded = <<>> /\ krecvd = 0 /\ sessionMu = "free" /\ serverMu = "free"
    /\ boundSession = <<>> /\ panicked = FALSE

\* Server.Start is not followed.
StartOff == startpc = "off"

\* No registration is followed.
RegistryOff == regSessions = <<>> /\ regStatus = "off"

StagesOf(c) == IF req[c].nil THEN {} ELSE req[c].stages
AllStages == DagStageIds
WorkerIdx == 1..MaxWorkers
PodName(c, s, i) == <<req[c].id, s, i>>

SchedInit(requests) ==
    /\ req \in requests
    /\ callpc = [c \in Calls |-> "idle"]
    /\ callResult = [c \in Calls |-> "none"]
    /\ pipelineExecutors = [p \in PipelineIds |-> "none"]
    /\ lastSent = [c \in Calls |-> NoEvent]
    /\ progress = [c \in Calls |-> NoEvent]
    /\ stageOrder = [c \in Calls |-> <<>>]
    /\ stageStatus = [c \in Calls |-> [s \in AllStages |-> "NONE"]]
    /\ retryCount = [c \in Calls |-> [s \in AllStages |-> 0]]
    /\ workerPodNames = [c \in Calls |-> [s \in AllStages |-> <<>>]]
    /\ progressStream = [c \in Calls |-> <<>>]
    /\ closed = [c \in Calls |-> FALSE]
    /\ cancelled = [c \in Calls |-> FALSE]
    /\ epc = [c \in Calls |-> "idle"]
    /\ level = [c \in Calls |-> 0]
    /\ spc = [c \in Calls |-> [s \in AllStages |-> "none"]]
    /\ stageErr = [c \in Calls |-> [s \in AllStages |-> FALSE]]
    /\ wpc = [c \in Calls |-> [s \in AllStages |-> [i \in WorkerIdx |-> "none"]]]
    /\ wres = [c \in Calls |-> [s \in AllStages |-> [i \in WorkerIdx |-> "none"]]]
    /\ wdel = [c \in Calls |-> [s \in AllStages |-> [i \in WorkerIdx |-> "none"]]]
    /\ pods = [n \in PodNames |-> "None"]
    /\ emitCount = [c \in Calls |-> 0]
    /\ emitFirst = [c \in Calls |-> NoEvent]
    /\ emitLast = [c \in Calls |-> NoEvent]
    /\ emitTerminal = [c \in Calls |-> 0]
    /\ stageLast = [c \in Calls |-> [s \in AllStages |-> "NONE"]]
    /\ attempts = [c \in Calls |-> [s \in AllStages |-> 0]]
    /\ created = [c \in Calls |-> [s \in AllStages |-> 0]]
    /\ deleteIssued = [c \in Calls |-> [s \in AllStages |-> 0]]
    /\ deleted = [c \in Calls |-> [s \in AllStages |-> 0]]
    /\ allPodFailed = [c \in Calls |-> [s \in AllStages |-> TRUE]]

\* The scheduler alone, from the requests given.
InitWith(requests) == SchedInit(requests) /\ LogOff /\ ScaleOff /\ EgressOff /\ NameOff /\ RespOff /\ SweepOff /\ ManagerOff /\ BoundOff /\ StartOff /\ RegistryOff

\* ------------------------------------------------------- progress events
PipelineEvent(status) == [stageId |-> PipelineLevel, status |-> status, names |-> <<>>]
StageEvent(c, s, status) == [stageId |-> s, status |-> status, names |-> workerPodNames[c][s]]

\* A pipeline-level terminal event.
IsTerminal(ev) == ev.stageId = PipelineLevel /\ ev.status \in {"COMPLETED", "FAILED"}

\* The non-blocking try-send of sendProgress / sendStageProgress: the event
\* enters the buffer when there is room and is dropped otherwise.
sendProgress(stream, ev) ==
    IF Len(stream) < ProgressCap THEN Append(stream, ev) ELSE stream

Emit(c, ev) ==
    /\ progressStream' = [progressStream EXCEPT ![c] = sendProgress(@, ev)]
    /\ emitCount' = [emitCount EXCEPT ![c] = @ + 1]
    /\ emitFirst' = [emitFirst EXCEPT ![c] = IF emitCount[c] = 0 THEN ev ELSE @]
    /\ emitLast' = [emitLast EXCEPT ![c] = ev]
    /\ emitTerminal' = [emitTerminal EXCEPT ![c] = IF IsTerminal(ev) THEN @ + 1 ELSE @]
    /\ stageLast' = IF ev.stageId = PipelineLevel THEN stageLast
                    ELSE [stageLast EXCEPT ![c][ev.stageId] = ev.status]

\* ------------------------------------------------- Server.ExecutePipeline
\* The RLock'ed lookup "if _, exists := s.pipelineExecutors[req.PipelineId]".
AlreadyRunning(id) == pipelineExecutors[id] # "none"

\* A validation that lets a request without stages through.
CallCheckNoStageListCheck(c) ==
    /\ callpc[c] = "idle"
    /\ req[c].call
    /\ IF req[c].nil \/ req[c].id = ""
       THEN /\ callpc' = [callpc EXCEPT ![c] = "returned"]
            /\ callResult' = [callResult EXCEPT ![c] = "invalid_argument"]
       ELSE IF AlreadyRunning(req[c].id)
       THEN /\ callpc' = [callpc EXCEPT ![c] = "returned"]
            /\ callResult' = [callResult EXCEPT ![c] = "already_exists"]
       ELSE /\ callpc' = [callpc EXCEPT ![c] = "checked"]
            /\ UNCHANGED callResult
    /\ UNCHANGED <<req, pipelineExecutors, lastSent, progress, execVars, workerVars, pods, histVars>>
    /\ UNCHANGED sideVars

\* Request validation and the registry lookup under the read lock.
CallCheck(c) ==
    /\ callpc[c] = "idle"
    /\ req[c].call
    /\ IF req[c].nil \/ req[c].id = "" \/ req[c].stages = {}
       THEN /\ callpc' = [callpc EXCEPT ![c] = "returned"]
            /\ callResult' = [callResult EXCEPT ![c] = "invalid_argument"]
       ELSE IF AlreadyRunning(req[c].id)
       THEN /\ callpc' = [callpc EXCEPT ![c] = "returned"]
            /\ callResult' = [callResult EXCEPT ![c] = "already_exists"]
       ELSE /\ callpc' = [callpc EXCEPT ![c] = "checked"]
            /\ UNCHANGED callResult
    /\ UNCHANGED <<req, pipelineExecutors, lastSent, progress, execVars, workerVars, pods, histVars>>
    /\ UNCHANGED sideVars

\* NewExecutor, then the store under the write lock.
CallStore(c) ==
    /\ callpc[c] = "checked"
    /\ pipelineExecutors' = [pipelineExecutors EXCEPT ![req[c].id] = c]
    /\ callpc' = [callpc EXCEPT ![c] = "stored"]
    /\ UNCHANGED <<req, callResult, lastSent, progress, execVars, workerVars, pods, histVars>>
    /\ UNCHANGED sideVars

\* The deferred "delete(s.pipelineExecutors, req.PipelineId)".
Unregister(c) == [pipelineExecutors EXCEPT ![req[c].id] = "none"]

\* executor.Execute: parseStages and buildExecutionOrder; on success the
\* executePipeline goroutine is started, on error the call returns Internal;
\* its deferred cleanup is still to run.
CallExecute(c) ==
    /\ callpc[c] = "stored"
    /\ LET built == buildExecutionOrder(req[c]) IN
       /\ stageStatus' = [stageStatus EXCEPT ![c] =
              [s \in AllStages |-> IF s \in req[c].stages THEN "PENDING" ELSE "NONE"]]
       /\ IF built.ok
          THEN /\ stageOrder' = [stageOrder EXCEPT ![c] = built.order]
               /\ epc' = [epc EXCEPT ![c] = "start"]
               /\ callpc' = [callpc EXCEPT ![c] = "streaming"]
               /\ UNCHANGED <<callResult, pipelineExecutors>>
          ELSE /\ callpc' = [callpc EXCEPT ![c] = "deferred"]
               /\ callResult' = [callResult EXCEPT ![c] = "internal"]
               /\ UNCHANGED <<stageOrder, epc, pipelineExecutors>>
    /\ UNCHANGED <<req, lastSent, progress, retryCount, workerPodNames, progressStream, closed,
                   cancelled, level, spc, stageErr, workerVars, pods, histVars>>
    /\ UNCHANGED sideVars

\* "for progress := range progressChan": the loop receives the next event;
\* its slot in the buffer is free from then on.
CallRecv(c) ==
    /\ callpc[c] = "streaming"
    /\ progressStream[c] # <<>>
    /\ progress' = [progress EXCEPT ![c] = Head(progressStream[c])]
    /\ progressStream' = [progressStream EXCEPT ![c] = Tail(@)]
    /\ callpc' = [callpc EXCEPT ![c] = "sending"]
    /\ UNCHANGED <<req, callResult, pipelineExecutors, lastSent, stageOrder, stageStatus,
                   retryCount, workerPodNames, closed, cancelled, epc, level, spc,
                   stageErr, workerVars, pods, histVars>>
    /\ UNCHANGED sideVars

\* stream.Send(progress) returns nil: the event is delivered.
CallSend(c) ==
    /\ callpc[c] = "sending"
    /\ lastSent' = [lastSent EXCEPT ![c] = progress[c]]
    /\ progress' = [progress EXCEPT ![c] = NoEvent]
    /\ callpc' = [callpc EXCEPT ![c] = "streaming"]
    /\ UNCHANGED <<req, callResult, pipelineExecutors, execVars, workerVars, pods,
                   histVars>>
    /\ UNCHANGED sideVars

\* stream.Send(progress) returns an error: executor.Cancel(), "return err".
\* The deferred cleanup is still to run.
CallSendFail(c) ==
    /\ callpc[c] = "sending"
    /\ progress' = [progress EXCEPT ![c] = NoEvent]
    /\ cancelled' = [cancelled EXCEPT ![c] = TRUE]
    /\ callpc' = [callpc EXCEPT ![c] = "deferred"]
    /\ callResult' = [callResult EXCEPT ![c] = "send_error"]
    /\ UNCHANGED <<req, pipelineExecutors, lastSent, stageOrder, stageStatus, retryCount,
                   workerPodNames, progressStream, closed, epc, level, spc, stageErr,
                   workerVars, pods, histVars>>
    /\ UNCHANGED sideVars

\* The range loop ends: the channel is closed and drained, "return nil". The
\* deferred cleanup is still to run.
CallReturn(c) ==
    /\ callpc[c] = "streaming"
    /\ progressStream[c] = <<>>
    /\ closed[c]
    /\ callpc' = [callpc EXCEPT ![c] = "deferred"]
    /\ callResult' = [callResult EXCEPT ![c] = "ok"]
    /\ UNCHANGED <<req, pipelineExecutors, lastSent, progress, execVars, workerVars,
                   pods, histVars>>
    /\ UNCHANGED sideVars

\* A deferred function that leaves the registry alone.
CallDeferredNoDelete(c) ==
    /\ callpc[c] = "deferred"
    /\ callpc' = [callpc EXCEPT ![c] = "returned"]
    /\ UNCHANGED <<req, callResult, pipelineExecutors, lastSent, progress, execVars,
                   workerVars, pods, histVars>>
    /\ UNCHANGED sideVars

\* The deferred function of ExecutePipeline: under pipelineMu.Lock(), the
\* entry of the pipeline id is deleted; then the call is over.
CallDeferred(c) ==
    /\ callpc[c] = "deferred"
    /\ pipelineExecutors' = Unregister(c)
    /\ callpc' = [callpc EXCEPT ![c] = "returned"]
    /\ UNCHANGED <<req, callResult, lastSent, progress, execVars, workerVars, pods,
                   histVars>>
    /\ UNCHANGED sideVars

\* The call is in its send loop: at the range or inside stream.Send.
InSendLoop(c) == callpc[c] \in {"streaming", "sending"}

\* The caller's context (stream.Context()) is cancelled, or Executor.Cancel
\* is called: the pipeline context derived from it is done.
Cancel(c) ==
    /\ InSendLoop(c)
    /\ ~cancelled[c]
    /\ cancelled' = [cancelled EXCEPT ![c] = TRUE]
    /\ UNCHANGED <<serverVars, stageOrder, stageStatus, retryCount, workerPodNames,
                   progressStream, closed, epc, level, spc, stageErr, workerVars,
                   pods, histVars>>
    /\ UNCHANGED sideVars

\* ------------------------------------------------ Executor.executePipeline
\* The initial pipeline-level progress event.
PipelineStart(c) ==
    /\ epc[c] = "start"
    /\ Emit(c, PipelineEvent("PENDING"))
    /\ epc' = [epc EXCEPT ![c] = "level"]
    /\ level' = [level EXCEPT ![c] = 1]
    /\ UNCHANGED <<serverVars, stageOrder, stageStatus, retryCount, workerPodNames,
                   closed, cancelled, spc, stageErr, workerVars, pods,
                   countVars>>
    /\ UNCHANGED sideVars

\* An executor that starts the stages of this and of every later level.
ExecuteLevelAndLater(c) ==
    /\ epc[c] = "level"
    /\ spc' = [spc EXCEPT ![c] =
          [s \in AllStages |->
             IF \E j \in level[c]..Len(stageOrder[c]) : s \in stageOrder[c][j]
             THEN "begin" ELSE @[s]]]
    /\ epc' = [epc EXCEPT ![c] = "wait"]
    /\ UNCHANGED <<serverVars, stageOrder, stageStatus, retryCount, workerPodNames,
                   progressStream, closed, cancelled, level, stageErr, workerVars,
                   pods, histVars>>
    /\ UNCHANGED sideVars

\* executeLevel: one executeStage goroutine per stage id of the level.
ExecuteLevel(c) ==
    /\ epc[c] = "level"
    /\ spc' = [spc EXCEPT ![c] =
          [s \in AllStages |-> IF s \in stageOrder[c][level[c]] THEN "begin" ELSE @[s]]]
    /\ epc' = [epc EXCEPT ![c] = "wait"]
    /\ UNCHANGED <<serverVars, stageOrder, stageStatus, retryCount, workerPodNames,
                   progressStream, closed, cancelled, level, stageErr, workerVars,
                   pods, histVars>>
    /\ UNCHANGED sideVars

\* An executeLevel that does not wait for its stage goroutines.
LevelJoinedNoWait(c) ==
    /\ epc[c] = "wait"
    /\ \E s \in stageOrder[c][level[c]] : spc[c][s] = "done"

\* wg.Wait() has returned: every stage goroutine of the level is done.
LevelJoined(c) ==
    /\ epc[c] = "wait"
    /\ \A s \in stageOrder[c][level[c]] : spc[c][s] = "done"

\* An executePipeline that ignores the error of executeLevel.
LevelErrIgnored(c) == FALSE

\* What executeLevel returns: the first error of errChan, nil when empty.
LevelErr(c) == \E s \in stageOrder[c][level[c]] : stageErr[c][s]

\* executeLevel returned nil and further levels remain.
NextLevel(c) ==
    /\ LevelJoined(c)
    /\ ~LevelErr(c)
    /\ level[c] < Len(stageOrder[c])
    /\ level' = [level EXCEPT ![c] = @ + 1]
    /\ epc' = [epc EXCEPT ![c] = "level"]
    /\ UNCHANGED <<serverVars, stageOrder, stageStatus, retryCount, workerPodNames,
                   progressStream, closed, cancelled, spc, stageErr, workerVars,
                   pods, histVars>>
    /\ UNCHANGED sideVars

\* The last level returned nil: the pipeline-level completed event, then the
\* deferred close(e.progressStream).
PipelineCompleted(c) ==
    /\ LevelJoined(c)
    /\ ~LevelErr(c)
    /\ level[c] = Len(stageOrder[c])
    /\ Emit(c, PipelineEvent("COMPLETED"))
    /\ closed' = [closed EXCEPT ![c] = TRUE]
    /\ epc' = [epc EXCEPT ![c] = "done"]
    /\ UNCHANGED <<serverVars, stageOrder, stageStatus, retryCount, workerPodNames,
                   cancelled, level, spc, stageErr, workerVars, pods,
                   countVars>>
    /\ UNCHANGED sideVars

\* A handlePipelineFailure that marks the stages but sends no event.
handlePipelineFailureSilent(c) ==
    /\ LevelJoined(c)
    /\ LevelErr(c)
    /\ stageStatus' = [stageStatus EXCEPT ![c] =
          [s \in AllStages |-> IF @[s] = "PENDING" THEN "SKIPPED" ELSE @[s]]]
    /\ closed' = [closed EXCEPT ![c] = TRUE]
    /\ epc' = [epc EXCEPT ![c] = "done"]
    /\ UNCHANGED <<serverVars, stageOrder, retryCount, workerPodNames, progressStream,
                   cancelled, level, spc, stageErr, workerVars, pods, histVars>>
    /\ UNCHANGED sideVars

\* handlePipelineFailure: every stage still PENDING becomes SKIPPED, the
\* pipeline-level failed event is sent; then the deferred close.
handlePipelineFailure(c) ==
    /\ LevelJoined(c)
    /\ LevelErr(c)
    /\ stageStatus' = [stageStatus EXCEPT ![c] =
          [s \in AllStages |-> IF @[s] = "PENDING" THEN "SKIPPED" ELSE @[s]]]
    /\ Emit(c, PipelineEvent("FAILED"))
    /\ closed' = [closed EXCEPT ![c] = TRUE]
    /\ epc' = [epc EXCEPT ![c] = "done"]
    /\ UNCHANGED <<serverVars, stageOrder, retryCount, workerPodNames,
                   cancelled, level, spc, stageErr, workerVars, pods,
                   countVars>>
    /\ UNCHANGED sideVars

\* --------------------------------------------------- Executor.executeStage
\* createWorkerConfigs: worker specs 1..worker_count.
WorkersOf(c, s) == 1..req[c].wc[s]

RECURSIVE Iota(_, _)
Iota(from, to) == IF from > to THEN <<>> ELSE <<from>> \o Iota(from + 1, to)

\* Status RUNNING, the running event (sent before createWorkerConfigs appends
\* this attempt's pod names), then the workers are started.
StageBegin(c, s) ==
    /\ spc[c][s] = "begin"
    /\ stageStatus' = [stageStatus EXCEPT ![c][s] = "RUNNING"]
    /\ Emit(c, StageEvent(c, s, "RUNNING"))
    /\ workerPodNames' = [workerPodNames EXCEPT ![c][s] = @ \o Iota(1, req[c].wc[s])]
    /\ wpc' = [wpc EXCEPT ![c][s] =
          [i \in WorkerIdx |-> IF i \in WorkersOf(c, s) THEN "create" ELSE "none"]]
    /\ wres' = [wres EXCEPT ![c][s] = [i \in WorkerIdx |-> "none"]]
    /\ wdel' = [wdel EXCEPT ![c][s] = [i \in WorkerIdx |-> "none"]]
    /\ attempts' = [attempts EXCEPT ![c][s] = @ + 1]
    /\ spc' = [spc EXCEPT ![c][s] = "workers"]
    /\ UNCHANGED <<serverVars, stageOrder, retryCount, closed, cancelled, epc, level,
                   stageErr, pods, created, deleteIssued, deleted, allPodFailed>>
    /\ UNCHANGED sideVars

\* A RunMultipleWorkers that errs only when no worker succeeded.
RunMultipleWorkersErrAll(c, s) == \A i \in WorkersOf(c, s) : wres[c][s][i] # "succeeded"

\* RunMultipleWorkers: an error when failureCount > 0.
RunMultipleWorkersErr(c, s) == \E i \in WorkersOf(c, s) : wres[c][s][i] # "succeeded"

\* The err of executeStage's "Execute workers" block: RunMultipleWorkers for
\* more than one config, CreateAndWaitForWorker for exactly one, nil for none.
WorkersErr(c, s) ==
    IF req[c].wc[s] > 1 THEN RunMultipleWorkersErr(c, s)
    ELSE IF req[c].wc[s] = 1 THEN wres[c][s][1] # "succeeded"
    ELSE FALSE

WorkersReturned(c, s) == \A i \in WorkersOf(c, s) : wpc[c][s][i] = "done"

\* The workers returned an error: status FAILED, before the retry decision.
StageWorkersFailed(c, s) ==
    /\ spc[c][s] = "workers"
    /\ WorkersReturned(c, s)
    /\ WorkersErr(c, s)
    /\ stageStatus' = [stageStatus EXCEPT ![c][s] = "FAILED"]
    /\ spc' = [spc EXCEPT ![c][s] = "failed"]
    /\ UNCHANGED <<serverVars, stageOrder, retryCount, workerPodNames, progressStream,
                   closed, cancelled, epc, level, stageErr, workerVars, pods, histVars>>
    /\ UNCHANGED sideVars

\* The workers returned nil: status COMPLETED and the completed event.
StageCompleted(c, s) ==
    /\ spc[c][s] = "workers"
    /\ WorkersReturned(c, s)
    /\ ~WorkersErr(c, s)
    /\ stageStatus' = [stageStatus EXCEPT ![c][s] = "COMPLETED"]
    /\ Emit(c, StageEvent(c, s, "COMPLETED"))
    /\ spc' = [spc EXCEPT ![c][s] = "done"]
    /\ UNCHANGED <<serverVars, stageOrder, retryCount, workerPodNames, closed,
                   cancelled, epc, level, stageErr, workerVars, pods,
                   countVars>>
    /\ UNCHANGED sideVars

\* A shouldRetry comparing with <= instead of <.
shouldRetryInclusive(c, s) ==
    IF req[c].retry[s] = NoPolicy THEN FALSE
    ELSE retryCount[c][s] <= req[c].retry[s]

\* shouldRetry: no policy, no retry; else RetryCount < MaxAttempts.
shouldRetry(c, s) ==
    IF req[c].retry[s] = NoPolicy THEN FALSE
    ELSE retryCount[c][s] < req[c].retry[s]

\* retryStage up to its wait: RetryCount++, status RETRYING, retrying event.
retryStage(c, s) ==
    /\ spc[c][s] = "failed"
    /\ shouldRetry(c, s)
    /\ retryCount' = [retryCount EXCEPT ![c][s] = @ + 1]
    /\ stageStatus' = [stageStatus EXCEPT ![c][s] = "RETRYING"]
    /\ Emit(c, StageEvent(c, s, "RETRYING"))
    /\ spc' = [spc EXCEPT ![c][s] = "retrywait"]
    /\ UNCHANGED <<serverVars, stageOrder, workerPodNames, closed, cancelled, epc,
                   level, stageErr, workerVars, pods,
                   countVars>>
    /\ UNCHANGED sideVars

\* No retry left: the failed event, executeStage returns the error.
StageFailed(c, s) ==
    /\ spc[c][s] = "failed"
    /\ ~shouldRetry(c, s)
    /\ Emit(c, StageEvent(c, s, "FAILED"))
    /\ stageErr' = [stageErr EXCEPT ![c][s] = TRUE]
    /\ spc' = [spc EXCEPT ![c][s] = "done"]
    /\ UNCHANGED <<serverVars, stageOrder, stageStatus, retryCount, workerPodNames,
                   closed, cancelled, epc, level, workerVars, pods,
                   countVars>>
    /\ UNCHANGED sideVars

\* retryStage's select, case <-time.After(retryDelay): executeStage again.
RetryDelayElapsed(c, s) ==
    /\ spc[c][s] = "retrywait"
    /\ spc' = [spc EXCEPT ![c][s] = "begin"]
    /\ UNCHANGED <<serverVars, stageOrder, stageStatus, retryCount, workerPodNames,
                   progressStream, closed, cancelled, epc, level, stageErr,
                   workerVars, pods, histVars>>
    /\ UNCHANGED sideVars

\* retryStage's select, case <-ctx.Done(): return ctx.Err().
RetryCancelled(c, s) ==
    /\ spc[c][s] = "retrywait"
    /\ cancelled[c]
    /\ stageErr' = [stageErr EXCEPT ![c][s] = TRUE]
    /\ spc' = [spc EXCEPT ![c][s] = "done"]
    /\ UNCHANGED <<serverVars, stageOrder, stageStatus, retryCount, workerPodNames,
                   progressStream, closed, cancelled, epc, level, workerVars, pods,
                   histVars>>
    /\ UNCHANGED sideVars

\* ------------------------------------------ Manager.CreateAndWaitForWorker
\* CreateWorkerPod succeeds: the pod exists and is active.
WorkerCreate(c, s, i) ==
    /\ wpc[c][s][i] = "create"
    /\ pods[PodName(c, s, i)] = "None"
    /\ pods' = [pods EXCEPT ![PodName(c, s, i)] = "Active"]
    /\ wpc' = [wpc EXCEPT ![c][s][i] = "wait"]
    /\ created' = [created EXCEPT ![c][s] = @ + 1]
    /\ UNCHANGED <<serverVars, execVars, wres, wdel, emitVars, attempts,
                   deleteIssued, deleted, allPodFailed>>
    /\ UNCHANGED sideVars

\* CreateWorkerPod fails (API error, or the name already exists): the call
\* returns "worker creation failed" without any cleanup.
WorkerCreateFail(c, s, i) ==
    /\ wpc[c][s][i] = "create"
    /\ wres' = [wres EXCEPT ![c][s][i] = "createfailed"]
    /\ wpc' = [wpc EXCEPT ![c][s][i] = "done"]
    /\ allPodFailed' = [allPodFailed EXCEPT ![c][s] = FALSE]
    /\ UNCHANGED <<serverVars, execVars, wdel, pods, emitVars, attempts, created,
                   deleteIssued, deleted>>
    /\ UNCHANGED sideVars

\* A poll that takes every terminal phase for a success.
PollOutcomeAnyTerminal(phase) ==
    CASE phase \in {"Succeeded", "Failed"} -> "succeeded"
      [] OTHER -> "none"

\* What one GetPod of the poll loop makes of the phase it reads:
\* Succeeded -> return nil, Failed -> return the failure, else keep polling.
PollOutcome(phase) ==
    CASE phase = "Succeeded" -> "succeeded"
      [] phase = "Failed" -> "podfailed"
      [] OTHER -> "none"

\* A cleanup on the caller's context: once that context is done the delete
\* is refused by the client before any request is issued.
CleanupPodOnCallerCtx(c, s, i) ==
    IF cancelled[c]
    THEN /\ wdel' = [wdel EXCEPT ![c][s][i] = "error"]
         /\ UNCHANGED <<pods, deleteIssued, deleted>>
    ELSE /\ deleteIssued' = [deleteIssued EXCEPT ![c][s] = @ + 1]
         /\ pods' = [pods EXCEPT ![PodName(c, s, i)] = "None"]
         /\ wdel' = [wdel EXCEPT ![c][s][i] = "ok"]
         /\ deleted' = [deleted EXCEPT ![c][s] = @ + 1]

\* CleanupPod on context.Background() with its own 30 s timeout, whether or
\* not the pipeline context is done: DeletePod removes the pod, or returns an
\* error that is logged as a warning and leaves the pod.
CleanupPod(c, s, i) ==
    /\ deleteIssued' = [deleteIssued EXCEPT ![c][s] = @ + 1]
    /\ \/ /\ pods[PodName(c, s, i)] # "None"
          /\ pods' = [pods EXCEPT ![PodName(c, s, i)] = "None"]
          /\ wdel' = [wdel EXCEPT ![c][s][i] = "ok"]
          /\ deleted' = [deleted EXCEPT ![c][s] = @ + 1]
       \/ /\ wdel' = [wdel EXCEPT ![c][s][i] = "error"]
          /\ UNCHANGED <<pods, deleted>>

\* A manager that returns early on a wait error, before the cleanup.
WorkerFinishNoCleanupOnError(c, s, i, res) ==
    /\ wres' = [wres EXCEPT ![c][s][i] = res]
    /\ IF res = "succeeded" THEN CleanupPod(c, s, i)
       ELSE UNCHANGED <<pods, wdel, deleteIssued, deleted>>
    /\ wpc' = [wpc EXCEPT ![c][s][i] = "done"]
    /\ allPodFailed' = [allPodFailed EXCEPT ![c][s] = @ /\ res = "podfailed"]
    /\ UNCHANGED <<serverVars, execVars, emitVars, attempts, created>>
    /\ UNCHANGED sideVars

\* A manager that returns the cleanup error when the delete fails.
WorkerFinishCleanupErrorReturned(c, s, i, res) ==
    /\ CleanupPod(c, s, i)
    /\ wres' = [wres EXCEPT ![c][s][i] =
                   IF wdel'[c][s][i] = "error" THEN "cleanupfailed" ELSE res]
    /\ wpc' = [wpc EXCEPT ![c][s][i] = "done"]
    /\ allPodFailed' = [allPodFailed EXCEPT ![c][s] = @ /\ res = "podfailed"]
    /\ UNCHANGED <<serverVars, execVars, emitVars, attempts, created>>
    /\ UNCHANGED sideVars

\* The rest of CreateAndWaitForWorker once WaitForPodCompletion returned
\* res: cleanup, then return nil or "worker failed".
WorkerFinish(c, s, i, res) ==
    /\ wres' = [wres EXCEPT ![c][s][i] = res]
    /\ CleanupPod(c, s, i)
    /\ wpc' = [wpc EXCEPT ![c][s][i] = "done"]
    /\ allPodFailed' = [allPodFailed EXCEPT ![c][s] = @ /\ res = "podfailed"]
    /\ UNCHANGED <<serverVars, execVars, emitVars, attempts, created>>
    /\ UNCHANGED sideVars

\* WaitForPodCompletion, case <-ticker.C: GetPod and the switch on the phase.
\* A GetPod error and an active pod leave the loop where it is.
WorkerPoll(c, s, i) ==
    /\ wpc[c][s][i] = "wait"
    /\ IF PollOutcome(pods[PodName(c, s, i)]) # "none"
       THEN WorkerFinish(c, s, i, PollOutcome(pods[PodName(c, s, i)]))
       ELSE UNCHANGED vars

\* WaitForPodCompletion, case <-ctx.Done(): return ctx.Err().
WorkerCtxDone(c, s, i) ==
    /\ wpc[c][s][i] = "wait"
    /\ cancelled[c]
    /\ WorkerFinish(c, s, i, "cancelled")

\* ------------------------------------------------------------ the cluster
\* A pod with restart policy Never ends once: Active -> Succeeded | Failed.
PhaseStep(from, to) == from = "Active" /\ to \in {"Succeeded", "Failed"}

PodPhase(n) ==
    /\ \E to \in Phases :
          /\ PhaseStep(pods[n], to)
          /\ pods' = [pods EXCEPT ![n] = to]
    /\ UNCHANGED <<serverVars, execVars, workerVars, histVars>>
    /\ UNCHANGED sideVars

\* ------------------------------------------------------- specifications
Next ==
    \/ \E c \in Calls :
          \/ CallCheck(c) \/ CallStore(c) \/ CallExecute(c)
          \/ CallRecv(c) \/ CallSend(c) \/ CallSendFail(c) \/ CallReturn(c)
          \/ CallDeferred(c) \/ Cancel(c)
          \/ PipelineStart(c) \/ ExecuteLevel(c) \/ NextLevel(c)
          \/ PipelineCompleted(c) \/ handlePipelineFailure(c)
    \/ \E c \in Calls, s \in AllStages :
          \/ StageBegin(c, s) \/ StageWorkersFailed(c, s) \/ StageCompleted(c, s)
          \/ retryStage(c, s) \/ StageFailed(c, s)
          \/ RetryDelayElapsed(c, s) \/ RetryCancelled(c, s)
    \/ \E c \in Calls, s \in AllStages, i \in WorkerIdx :
          \/ WorkerCreate(c, s, i) \/ WorkerCreateFail(c, s, i)
          \/ WorkerPoll(c, s, i) \/ WorkerCtxDone(c, s, i)
    \/ \E n \in PodNames : PodPhase(n)

\* One ExecutePipeline call with a request from ExecRequests or one that the
\* argument checks refuse; the second call is never made.
SchedRequests ==
    { r \in [Calls -> ExecRequests \cup InvalidRequests \cup {NoCall}] :
        /\ r["c1"] # NoCall
        /\ r["c2"] = NoCall }

Init == InitWith(SchedRequests)

Spec == Init /\ [][Next]_vars

\* The goroutines of one call: executePipeline, its executeStage goroutines
\* and their worker goroutines.
ExecutorStep(c) ==
    \/ PipelineStart(c) \/ ExecuteLevel(c) \/ NextLevel(c)
    \/ PipelineCompleted(c) \/ handlePipelineFailure(c)
    \/ \E s \in AllStages :
          \/ StageBegin(c, s) \/ StageWorkersFailed(c, s) \/ StageCompleted(c, s)
          \/ retryStage(c, s) \/ StageFailed(c, s)
          \/ RetryDelayElapsed(c, s) \/ RetryCancelled(c, s)
    \/ \E s \in AllStages, i \in WorkerIdx :
          \/ WorkerCreate(c, s, i) \/ WorkerCreateFail(c, s, i)
          \/ WorkerPoll(c, s, i) \/ WorkerCtxDone(c, s, i)

\* The Go runtime runs every runnable goroutine, timers and tickers fire and
\* API calls return: a call whose goroutines can step does step. Nothing is
\* assumed of the consumer of the stream, of the caller's cancellation or of
\* the pods' own progress.
Fairness == \A c \in Calls : WF_vars(ExecutorStep(c))

\* One call with a one-stage or a chained request.
FairSchedRequests ==
    { r \in [Calls -> OneStageRequests \cup ChainRequests \cup {NoCall}] :
        /\ r["c1"] # NoCall
        /\ r["c2"] = NoCall }

InitFair == InitWith(FairSchedRequests)

FairSpec == InitFair /\ [][Next]_vars /\ Fairness

\* The admission path alone (validation, registration, Execute), over every
\* dependency graph of DagRequests and the requests refused as invalid.
DagSchedRequests ==
    { r \in [Calls -> DagRequests \cup InvalidRequests \cup {NoCall}] :
        /\ r["c1"] # NoCall
        /\ r["c2"] = NoCall }

InitDag == InitWith(DagSchedRequests)

NextDag ==
    \E c \in Calls : CallCheck(c) \/ CallStore(c) \/ CallExecute(c) \/ CallDeferred(c)

SpecDag == InitDag /\ [][NextDag]_vars

\* Two concurrent ExecutePipeline calls, each with a request of
\* ServerRequests; no stage has a retry policy, so the retry steps never apply.
\* The pipeline ids being interchangeable, the first call takes id "p" and
\* the second the same id or the other.
InitServer == InitWith({r \in [Calls -> ServerRequests] : r["c1"].id = "p"})

NextServer ==
    \/ \E c \in Calls :
          \/ CallCheck(c) \/ CallStore(c) \/ CallExecute(c)
          \/ CallRecv(c) \/ CallSend(c) \/ CallSendFail(c) \/ CallReturn(c)
          \/ CallDeferred(c) \/ Cancel(c)
          \/ PipelineStart(c) \/ ExecuteLevel(c)
          \/ PipelineCompleted(c) \/ handlePipelineFailure(c)
    \/ \E c \in Calls, s \in AllStages :
          \/ StageBegin(c, s) \/ StageWorkersFailed(c, s) \/ StageCompleted(c, s)
          \/ StageFailed(c, s)
    \/ \E c \in Calls, s \in AllStages, i \in WorkerIdx :
          \/ WorkerCreate(c, s, i) \/ WorkerCreateFail(c, s, i)
          \/ WorkerPoll(c, s, i) \/ WorkerCtxDone(c, s, i)
    \/ \E n \in PodNames : PodPhase(n)

SpecServer == InitServer /\ [][NextServer]_vars

\* ----------------------------------------------------- LogStreamingServer
\* NewLogStreamingServer: maxRetries and maxSessionsPerWorker.
maxRetries == 3
maxSessionsPerWorker == 5
\* Sessions ever created, and log entries received over all streams.
MaxSessions == 1
MaxEntries == 2

Streams == {"s1", "s2"}
WorkerIds == {"w1", "w2"}
SessionIds == 1..MaxSessions

\* A log entry: nil, or its worker id, task id and message ("" when missing).
NilEntry == [nil |-> TRUE]
MkEntry(w, t, m) == [nil |-> FALSE, worker |-> w, task |-> t, message |-> m]
LogEntries ==
    {NilEntry} \cup {MkEntry(w, "t", "m") : w \in WorkerIds}
    \cup {MkEntry("", "t", "m"), MkEntry("w1", "", "m"), MkEntry("w1", "t", "")}

\* A registration request: nil, or its worker id and task id.
RegRequests ==
    {[nil |-> TRUE]} \cup
    {[nil |-> FALSE, worker |-> w, task |-> k] : w \in WorkerIds \cup {""}, k \in {"", "t"}}

\* A StreamingSession object. inMap tells whether s.sessions still holds it:
\* a stream bound to a session keeps its pointer after the map entry is gone.
\* stopChan is the session's stop channel: open, closed, or "panic" once a
\* close of the closed channel has killed the process.
NoSession ==
    [worker |-> "", active |-> FALSE, inMap |-> FALSE, logCount |-> 0, errorCount |-> 0,
     stopChan |-> "open"]
NewSession(w) ==
    [worker |-> w, active |-> TRUE, inMap |-> TRUE, logCount |-> 0, errorCount |-> 0,
     stopChan |-> "open"]

\* close(ch): a close of a closed channel panics.
CloseChan(ch) == IF ch = "open" THEN "closed" ELSE "panic"

\* No panic has killed the process.
LogAlive == \A sid \in SessionIds : sessions[sid].stopChan # "panic"
\* A response of the service. A LogResponse: its status and
\* sequence and, for a RETRY, the number of forwarding attempts made for the
\* entry it answers. A WorkerRegistrationResponse: its status and session id.
NoResponse == [status |-> "NONE", session |-> 0, seq |-> 0, attempts |-> 0]
MkResponse(status, seq, k) ==
    [status |-> status, session |-> 0, seq |-> seq, attempts |-> k]
MkRegistration(status, sid) ==
    [status |-> status, session |-> sid, seq |-> 0, attempts |-> 0]

LogInit ==
    /\ sessions = [sid \in SessionIds |-> NoSession]
    /\ acks = [sid \in SessionIds |-> 0]
    /\ lpc = [st \in Streams |-> "idle"]
    /\ lctx = [st \in Streams |-> FALSE]
    /\ cur = [st \in Streams |-> 0]
    /\ entry = [st \in Streams |-> NilEntry]
    /\ tmp = [st \in Streams |-> 0]
    /\ attempt = [st \in Streams |-> 0]
    /\ recvd = 0
    /\ resp = NoResponse

\* The sessions of the map that are active for worker w: what the loops of
\* RegisterWorker, countActiveSessionsForWorker and findSessionByWorker see.
findSessionByWorker(w) ==
    {sid \in SessionIds :
        sessions[sid].inMap /\ sessions[sid].active /\ sessions[sid].worker = w}
countActiveSessionsForWorker(w) == Cardinality(findSessionByWorker(w))
\* The number the next session gets (the id is worker id + creation time).
NextSessionId == 1 + Cardinality({sid \in SessionIds : sessions[sid].worker # ""})

\* RegisterWorker as it would be if a registration of a registered worker
\* replaced the worker's session by a fresh one.
RegisterWorkerOverwrite(r) ==
    /\ LogAlive
    /\ IF r.nil \/ r.worker = "" \/ r.task = ""
       THEN /\ resp' = MkRegistration("INVALID_ARGUMENT", 0)
            /\ UNCHANGED sessions
       ELSE IF findSessionByWorker(r.worker) # {}
       THEN \E sid \in findSessionByWorker(r.worker) :
               /\ sessions' = [sessions EXCEPT ![sid] = NewSession(r.worker)]
               /\ resp' = MkRegistration("SUCCESS", sid)
       ELSE IF countActiveSessionsForWorker(r.worker) >= maxSessionsPerWorker
       THEN /\ resp' = MkRegistration("SERVER_FULL", 0)
            /\ UNCHANGED sessions
       ELSE /\ NextSessionId \in SessionIds
            /\ sessions' = [sessions EXCEPT ![NextSessionId] = NewSession(r.worker)]
            /\ resp' = MkRegistration("SUCCESS", NextSessionId)
    /\ UNCHANGED <<streamVars, acks, notLogVars>>

\* RegisterWorker, whole under s.mu.Lock().
RegisterWorker(r) ==
    /\ LogAlive
    /\ IF r.nil \/ r.worker = "" \/ r.task = ""
       THEN /\ resp' = MkRegistration("INVALID_ARGUMENT", 0)
            /\ UNCHANGED sessions
       ELSE IF findSessionByWorker(r.worker) # {}
       THEN /\ \E sid \in findSessionByWorker(r.worker) :
                  resp' = MkRegistration("ALREADY_REGISTERED", sid)
            /\ UNCHANGED sessions
       ELSE IF countActiveSessionsForWorker(r.worker) >= maxSessionsPerWorker
       THEN /\ resp' = MkRegistration("SERVER_FULL", 0)
            /\ UNCHANGED sessions
       ELSE /\ NextSessionId \in SessionIds
            /\ sessions' = [sessions EXCEPT ![NextSessionId] = NewSession(r.worker)]
            /\ resp' = MkRegistration("SUCCESS", NextSessionId)
    /\ UNCHANGED <<streamVars, acks, notLogVars>>

\* A step that produces no response.
Silent == resp' = NoResponse

\* StreamLogs is called: the receive loop starts with no session bound.
LogOpen(st) ==
    /\ LogAlive
    /\ lpc[st] = "idle"
    /\ lpc' = [lpc EXCEPT ![st] = "recv"]
    /\ Silent
    /\ UNCHANGED <<sessions, acks, lctx, cur, entry, tmp, attempt, recvd, notLogVars>>

\* "select { case responseChan <- response: case <-ctx.Done(): return }":
\* the response is queued and the loop continues, or, the context being
\* done, the call may return at once, without deactivating its session.
Respond(st, r) ==
    \/ /\ resp' = r
       /\ lpc' = [lpc EXCEPT ![st] = "recv"]
    \/ /\ lctx[st]
       /\ lpc' = [lpc EXCEPT ![st] = "closed"]
       /\ Silent

\* The turn of the loop is over: its entry is gone.
EndOfTurn(st) == entry' = [entry EXCEPT ![st] = NilEntry]

\* The field checks of processLogEntry.
MissingField(e) == e.worker = "" \/ e.task = "" \/ e.message = ""

ErrorCountInc(sid) == [sessions EXCEPT ![sid].errorCount = @ + 1]

\* The loop's select finds the context not done and takes its default
\* branch: stream.Recv returns entry e.
LogRecv(st, e) ==
    /\ LogAlive
    /\ lpc[st] = "recv"
    /\ ~lctx[st]
    /\ recvd < MaxEntries
    /\ recvd' = recvd + 1
    /\ entry' = [entry EXCEPT ![st] = e]
    /\ lpc' = [lpc EXCEPT ![st] = "entry"]
    /\ Silent
    /\ UNCHANGED <<sessions, acks, lctx, cur, tmp, attempt, notLogVars>>

\* The nil check and, when no session is bound yet, findSessionByWorker under
\* s.mu.RLock(): a nil entry and an entry whose worker has no active session
\* are answered DROP; otherwise the stream is bound and the entry goes to
\* processLogEntry.
LogLookup(st) ==
    /\ LogAlive
    /\ lpc[st] = "entry"
    /\ IF entry[st].nil \/ (cur[st] = 0 /\ findSessionByWorker(entry[st].worker) = {})
       THEN /\ Respond(st, MkResponse("DROP", 0, 0))
            /\ EndOfTurn(st)
            /\ UNCHANGED cur
       ELSE /\ \E sid \in (IF cur[st] # 0 THEN {cur[st]}
                           ELSE findSessionByWorker(entry[st].worker)) :
                 cur' = [cur EXCEPT ![st] = sid]
            /\ lpc' = [lpc EXCEPT ![st] = "process"]
            /\ Silent
            /\ UNCHANGED entry
    /\ UNCHANGED <<sessions, acks, lctx, tmp, attempt, recvd, notLogVars>>

\* processLogEntry up to the forwarding: an entry that lacks a field counts
\* an error under session.mu and is answered RETRY; otherwise
\* forwardLogEntryWithRetry starts its loop with attempt 0, the first pass
\* of which has no wait.
LogValidate(st) ==
    /\ LogAlive
    /\ lpc[st] = "process"
    /\ IF MissingField(entry[st])
       THEN /\ sessions' = ErrorCountInc(cur[st])
            /\ Respond(st, MkResponse("RETRY", 0, 0))
            /\ EndOfTurn(st)
            /\ UNCHANGED attempt
       ELSE /\ lpc' = [lpc EXCEPT ![st] = "forward"]
            /\ attempt' = [attempt EXCEPT ![st] = 0]
            /\ Silent
            /\ UNCHANGED <<sessions, entry>>
    /\ UNCHANGED <<acks, lctx, cur, tmp, recvd, notLogVars>>

\* The loop test of forwardLogEntryWithRetry as it would be with
\* "attempt < s.maxRetries".
RetryLoopExclusive(a) == a < maxRetries

\* "for attempt := 0; attempt <= s.maxRetries; attempt++": the loop goes on
\* with attempt a.
RetryLoop(a) == a <= maxRetries

\* forwardLogEntry succeeds in the pass the loop is in: the entry is
\* delivered to the handler and forwardLogEntryWithRetry returns nil.
LogForwardOk(st) ==
    /\ LogAlive
    /\ lpc[st] = "forward"
    /\ lpc' = [lpc EXCEPT ![st] = "load"]
    /\ attempt' = [attempt EXCEPT ![st] = 0]
    /\ Silent
    /\ UNCHANGED <<sessions, acks, lctx, cur, entry, tmp, recvd, notLogVars>>

\* forwardLogEntry fails, "continue" and "attempt++", and the loop goes on:
\* the call is in the select of the retry wait.
LogForwardRetry(st) ==
    /\ LogAlive
    /\ lpc[st] = "forward"
    /\ RetryLoop(attempt[st] + 1)
    /\ attempt' = [attempt EXCEPT ![st] = @ + 1]
    /\ lpc' = [lpc EXCEPT ![st] = "wait"]
    /\ Silent
    /\ UNCHANGED <<sessions, acks, lctx, cur, entry, tmp, recvd, notLogVars>>

\* The retry wait ends on case <-time.After(s.retryDelay): the next
\* forwardLogEntry follows.
LogRetryWait(st) ==
    /\ LogAlive
    /\ lpc[st] = "wait"
    /\ lpc' = [lpc EXCEPT ![st] = "forward"]
    /\ Silent
    /\ UNCHANGED <<sessions, acks, lctx, cur, entry, tmp, attempt, recvd, notLogVars>>

\* forwardLogEntry fails, "continue" and "attempt++", and the loop is over:
\* forwardLogEntryWithRetry returns its error, processLogEntry counts it
\* under session.mu and the response is RETRY. The response carries the
\* number of forwardLogEntry calls the loop has made, one per pass.
LogForwardFail(st) ==
    /\ LogAlive
    /\ lpc[st] = "forward"
    /\ ~RetryLoop(attempt[st] + 1)
    /\ sessions' = ErrorCountInc(cur[st])
    /\ Respond(st, MkResponse("RETRY", 0, attempt[st] + 1))
    /\ attempt' = [attempt EXCEPT ![st] = 0]
    /\ EndOfTurn(st)
    /\ UNCHANGED <<acks, lctx, cur, tmp, recvd, notLogVars>>

\* The retry wait ends on case <-ctx.Done(): forwardLogEntryWithRetry
\* returns ctx.Err() after the attempt[st] calls made so far, and
\* processLogEntry and StreamLogs treat it as any forwarding error.
LogRetryCtxDone(st) ==
    /\ LogAlive
    /\ lpc[st] = "wait"
    /\ lctx[st]
    /\ sessions' = ErrorCountInc(cur[st])
    /\ Respond(st, MkResponse("RETRY", 0, attempt[st]))
    /\ attempt' = [attempt EXCEPT ![st] = 0]
    /\ EndOfTurn(st)
    /\ UNCHANGED <<acks, lctx, cur, tmp, recvd, notLogVars>>

\* "currentSession.LogCount++" is a read and a write of a field that no lock
\* guards; the Sequence of the ACK is a further read of it.
LogCountLoad(st) ==
    /\ LogAlive
    /\ lpc[st] = "load"
    /\ tmp' = [tmp EXCEPT ![st] = sessions[cur[st]].logCount]
    /\ lpc' = [lpc EXCEPT ![st] = "store"]
    /\ Silent
    /\ UNCHANGED <<sessions, acks, lctx, cur, entry, attempt, recvd, notLogVars>>

LogCountStore(st) ==
    /\ LogAlive
    /\ lpc[st] = "store"
    /\ sessions' = [sessions EXCEPT ![cur[st]].logCount = tmp[st] + 1]
    /\ tmp' = [tmp EXCEPT ![st] = 0]
    /\ lpc' = [lpc EXCEPT ![st] = "ack"]
    /\ Silent
    /\ UNCHANGED <<acks, lctx, cur, entry, attempt, recvd, notLogVars>>

\* The ACK response with Sequence = currentSession.LogCount.
LogAck(st) ==
    /\ LogAlive
    /\ lpc[st] = "ack"
    /\ Respond(st, MkResponse("ACK", sessions[cur[st]].logCount, 0))
    /\ acks' = IF lpc'[st] = "recv" THEN [acks EXCEPT ![cur[st]] = @ + 1] ELSE acks
    /\ EndOfTurn(st)
    /\ UNCHANGED <<sessions, lctx, cur, tmp, attempt, recvd, notLogVars>>

\* deactivateSession: the session, if the map holds it, becomes inactive and
\* its stop channel is closed, whether or not it was closed before.
deactivateSession(sid) ==
    IF sid # 0 /\ sessions[sid].inMap
    THEN [sessions EXCEPT ![sid].active = FALSE, ![sid].stopChan = CloseChan(@)]
    ELSE sessions

\* The client goes away: the stream's context is cancelled.
LogCtxCancel(st) ==
    /\ LogAlive
    /\ lpc[st] \notin {"idle", "closed"}
    /\ ~lctx[st]
    /\ lctx' = [lctx EXCEPT ![st] = TRUE]
    /\ Silent
    /\ UNCHANGED <<sessions, acks, lpc, cur, entry, tmp, attempt, recvd, notLogVars>>

\* The loop's case <-ctx.Done(): deactivate the bound session and return.
LogCtxDone(st) ==
    /\ LogAlive
    /\ lpc[st] = "recv"
    /\ lctx[st]
    /\ sessions' = deactivateSession(cur[st])
    /\ lpc' = [lpc EXCEPT ![st] = "closed"]
    /\ Silent
    /\ UNCHANGED <<acks, lctx, cur, entry, tmp, attempt, recvd, notLogVars>>

\* stream.Recv returns io.EOF or an error: deactivate and return. The
\* context of a stream is done once its handler has returned.
LogRecvEnd(st) ==
    /\ LogAlive
    /\ lpc[st] = "recv"
    /\ ~lctx[st]
    /\ sessions' = deactivateSession(cur[st])
    /\ lpc' = [lpc EXCEPT ![st] = "closed"]
    /\ lctx' = [lctx EXCEPT ![st] = TRUE]
    /\ Silent
    /\ UNCHANGED <<acks, cur, entry, tmp, attempt, recvd, notLogVars>>

\* CleanupInactiveSessions: the map loses every session that is inactive or
\* was created before the cutoff (old, whichever sessions the clock says).
CleanupInactiveSessions(old) ==
    /\ LogAlive
    /\ \E sid \in SessionIds :
          sessions[sid].inMap /\ (~sessions[sid].active \/ sid \in old)
    /\ sessions' = [sid \in SessionIds |->
          IF sessions[sid].inMap /\ (~sessions[sid].active \/ sid \in old)
          THEN [sessions[sid] EXCEPT !.inMap = FALSE]
          ELSE sessions[sid]]
    /\ Silent
    /\ UNCHANGED <<acks, streamVars, notLogVars>>

NextLog ==
    \/ \E r \in RegRequests : RegisterWorker(r)
    \/ \E st \in Streams :
          \/ LogOpen(st) \/ (\E e \in LogEntries : LogRecv(st, e))
          \/ LogLookup(st) \/ LogValidate(st)
          \/ LogForwardOk(st) \/ LogForwardRetry(st) \/ LogRetryWait(st)
          \/ LogForwardFail(st) \/ LogRetryCtxDone(st)
          \/ LogCountLoad(st) \/ LogCountStore(st) \/ LogAck(st)
          \/ LogCtxCancel(st) \/ LogCtxDone(st) \/ LogRecvEnd(st)
    \/ \E old \in SUBSET SessionIds : CleanupInactiveSessions(old)

\* The log streaming service alone: no ExecutePipeline call is made.
InitLog == SchedInit({[c \in Calls |-> NoCall]}) /\ LogInit /\ ScaleOff /\ EgressOff /\ NameOff /\ RespOff /\ SweepOff /\ ManagerOff /\ BoundOff /\ StartOff /\ RegistryOff

SpecLog == InitLog /\ [][NextLog]_vars

\* ---------------------------------------------------------- Server.ScaleUp
\* Workers of one ScaleUp call at most.
MaxBatch == 3

BatchIdx == 1..MaxBatch
\* A ScaleRequest: nil, or its task id and worker count.
NilScale == [nil |-> TRUE]
ScaleRequests ==
    {NilScale} \cup
    {[nil |-> FALSE, task |-> k, count |-> n] : k \in {"", "t"}, n \in 0..MaxBatch}

\* createWorkerConfigs: worker i of the request is named after its task.
BatchName(i) == <<"otto-agent", scaleReq.task, i>>
\* The configs handed to RunMultipleWorkers.
BatchOf(r) == 1..r.count

NoScaleResponse == [status |-> "NONE", count |-> 0, names |-> <<>>]

ScaleInit ==
    /\ scaleReq \in ScaleRequests
    /\ scaleResp = NoScaleResponse
    /\ scaleCtx = FALSE
    /\ scalepc = "call"
    /\ bpc = [i \in BatchIdx |-> "none"]
    /\ bres = [i \in BatchIdx |-> "none"]
    /\ bdel = [i \in BatchIdx |-> "none"]
    /\ bpods = [i \in BatchIdx |-> "None"]
    /\ results = <<>>
    /\ received = 0
    /\ failureCount = 0
    /\ errors = <<>>
    /\ batchRet = "none"

\* ScaleUp up to its "go func()": the argument checks, which return
\* InvalidArgument; then createWorkerConfigs and the start of the goroutine
\* that calls RunMultipleWorkers, which starts one goroutine per config.
ScaleUp ==
    /\ scalepc = "call"
    /\ IF scaleReq.nil \/ scaleReq.task = "" \/ scaleReq.count <= 0
       THEN /\ scaleResp' = [status |-> "INVALID_ARGUMENT", count |-> 0, names |-> <<>>]
            /\ scalepc' = "returned"
            /\ UNCHANGED bpc
       ELSE /\ bpc' = [i \in BatchIdx |->
                         IF i \in BatchOf(scaleReq) THEN "create" ELSE "none"]
            /\ scalepc' = "launched"
            /\ UNCHANGED scaleResp
    /\ UNCHANGED <<scaleReq, scaleCtx, bres, bdel, bpods, results, received,
                   failureCount, errors, batchRet, notScaleVars>>

\* The rest of ScaleUp: the acceptance response is built from the request
\* and the names of the configs and returned, whatever the batch has done
\* meanwhile.
ScaleUpReturn ==
    /\ scalepc = "launched"
    /\ scaleResp' = [status |-> "SUCCESS", count |-> scaleReq.count,
                     names |-> [i \in BatchOf(scaleReq) |-> BatchName(i)]]
    /\ scalepc' = "returned"
    /\ UNCHANGED <<scaleReq, scaleCtx, batchVars, notScaleVars>>

\* The goroutine of the batch has been started.
BatchStarted == scalepc = "launched" \/ scaleResp.status = "SUCCESS"

\* The context of the ScaleUp call is done: the client went away, or the
\* call has returned.
ScaleCtxCancel ==
    /\ ~scaleCtx
    /\ scaleCtx' = TRUE
    /\ UNCHANGED <<scaleReq, scaleResp, scalepc, batchVars, notScaleVars>>

\* A batch that runs on the context of the call.
BatchCtxDoneWithCall == scaleCtx

\* "workerCtx := context.Background()": the context of the batch is never
\* done.
BatchCtxDone == FALSE

\* CreateWorkerPod succeeds.
BatchWorkerCreate(i) ==
    /\ bpc[i] = "create"
    /\ bpods[i] = "None"
    /\ bpods' = [bpods EXCEPT ![i] = "Active"]
    /\ bpc' = [bpc EXCEPT ![i] = "wait"]
    /\ UNCHANGED <<scaleReq, scaleResp, scaleCtx, scalepc, bres, bdel, results, received,
                   failureCount, errors, batchRet, notScaleVars>>

\* CreateWorkerPod fails: CreateAndWaitForWorker returns the error and the
\* worker's goroutine queues its "failed" status.
BatchWorkerCreateFail(i) ==
    /\ bpc[i] = "create"
    /\ bres' = [bres EXCEPT ![i] = "createfailed"]
    /\ results' = Append(results, i)
    /\ bpc' = [bpc EXCEPT ![i] = "done"]
    /\ UNCHANGED <<scaleReq, scaleResp, scaleCtx, scalepc, bdel, bpods, received,
                   failureCount, errors, batchRet, notScaleVars>>

\* How WaitForPodCompletion can end now: on the phase its GetPod reads, or on
\* its context if that is done.
WaitOutcomes(i) ==
    ({PollOutcome(bpods[i])} \ {"none"})
    \cup (IF BatchCtxDone THEN {"cancelled"} ELSE {})

\* WaitForPodCompletion ends with res; CleanupPod on its own context (the
\* delete removes the pod, or fails and is logged); the goroutine queues the
\* worker's status on the results channel, which has room for every worker.
BatchWorkerFinish(i) ==
    /\ bpc[i] = "wait"
    /\ \E res \in WaitOutcomes(i) : bres' = [bres EXCEPT ![i] = res]
    /\ \/ /\ bpods' = [bpods EXCEPT ![i] = "None"]
          /\ bdel' = [bdel EXCEPT ![i] = "ok"]
       \/ /\ bdel' = [bdel EXCEPT ![i] = "error"]
          /\ UNCHANGED bpods
    /\ results' = Append(results, i)
    /\ bpc' = [bpc EXCEPT ![i] = "done"]
    /\ UNCHANGED <<scaleReq, scaleResp, scaleCtx, scalepc, received, failureCount, errors,
                   batchRet, notScaleVars>>

\* The pod of worker i ends.
BatchPodPhase(i) ==
    /\ \E to \in Phases :
          /\ PhaseStep(bpods[i], to)
          /\ bpods' = [bpods EXCEPT ![i] = to]
    /\ UNCHANGED <<scaleReq, scaleResp, scaleCtx, scalepc, bpc, bres, bdel, results, received,
                   failureCount, errors, batchRet, notScaleVars>>

\* A collecting loop that stops at the first failed status.
BatchCollectedOrFailed == received = scaleReq.count \/ failureCount > 0

\* "for i := 0; i < len(configs); i++": every status has been taken.
BatchCollected == received = scaleReq.count

\* RunMultipleWorkers takes one status from the results channel.
BatchCollect ==
    /\ batchRet = "none"
    /\ BatchStarted
    /\ ~BatchCollected
    /\ results # <<>>
    /\ results' = Tail(results)
    /\ received' = received + 1
    /\ IF bres[Head(results)] # "succeeded"
       THEN /\ failureCount' = failureCount + 1
            /\ errors' = Append(errors, BatchName(Head(results)))
       ELSE UNCHANGED <<failureCount, errors>>
    /\ UNCHANGED <<scaleReq, scaleResp, scaleCtx, scalepc, bpc, bres, bdel, bpods, batchRet,
                   notScaleVars>>

\* RunMultipleWorkers returns: the error that lists errors if failureCount > 0.
BatchReturn ==
    /\ batchRet = "none"
    /\ BatchStarted
    /\ BatchCollected
    /\ batchRet' = IF failureCount > 0 THEN "error" ELSE "nil"
    /\ UNCHANGED <<scaleReq, scaleResp, scaleCtx, scalepc, bpc, bres, bdel, bpods, results,
                   received, failureCount, errors, notScaleVars>>

NextScale ==
    \/ ScaleUp \/ ScaleUpReturn \/ ScaleCtxCancel
    \/ \E i \in BatchIdx :
          \/ BatchWorkerCreate(i) \/ BatchWorkerCreateFail(i)
          \/ BatchWorkerFinish(i) \/ BatchPodPhase(i)
    \/ BatchCollect \/ BatchReturn

\* One ScaleUp call; no ExecutePipeline call, no log stream.
InitScale == SchedInit({[c \in Calls |-> NoCall]}) /\ LogOff /\ ScaleInit /\ EgressOff /\ NameOff /\ RespOff /\ SweepOff /\ ManagerOff /\ BoundOff /\ StartOff /\ RegistryOff

SpecScale == InitScale /\ [][NextScale]_vars

\* ------------------------------------------- StreamLogs, response path

\* Responses one StreamLogs call queues at most.
MaxResponses == 2

\* StreamLogs is entered: the response goroutine runs, no session is bound.
RespInit ==
    /\ slpc = [st \in Streams |-> "recv"]
    /\ sctx = [st \in Streams |-> FALSE]
    /\ responseChan = [st \in Streams |-> 0]
    /\ rpc = [st \in Streams |-> "running"]
    /\ currentSession = [st \in Streams |-> "none"]
    /\ sent = [st \in Streams |-> 0]

\* One turn of the receive loop up to its response, seen from the response
\* path: the loop's select finds the context not done, stream.Recv returns an
\* entry, and the entry is answered without a session (nil entry, worker not
\* registered) or the call is bound to the worker's session and the entry
\* processed.
StreamLogsTurn(st, bind) ==
    /\ slpc[st] = "recv"
    /\ ~sctx[st]
    /\ responseChan[st] + sent[st] < MaxResponses
    /\ currentSession' =
          [currentSession EXCEPT ![st] = IF bind /\ @ = "none" THEN "active" ELSE @]
    /\ slpc' = [slpc EXCEPT ![st] = "respond"]
    /\ UNCHANGED <<sctx, responseChan, rpc, sent, notRespVars>>

\* "select { case responseChan <- response: case <-ctx.Done(): return }":
\* the response of the turn is queued on responseChan and the loop goes on,
\* or, the context being done, the call may return ctx.Err() at once.
StreamLogsRespond(st) ==
    /\ slpc[st] = "respond"
    /\ \/ /\ responseChan' = [responseChan EXCEPT ![st] = @ + 1]
          /\ slpc' = [slpc EXCEPT ![st] = "recv"]
       \/ /\ sctx[st]
          /\ slpc' = [slpc EXCEPT ![st] = "closed"]
          /\ UNCHANGED responseChan
    /\ UNCHANGED <<sctx, rpc, currentSession, sent, notRespVars>>

\* The loop ends on ctx.Done(), io.EOF or a receive error: the bound session
\* is deactivated and the call returns.
StreamLogsEnd(st) ==
    /\ slpc[st] = "recv"
    /\ currentSession' =
          [currentSession EXCEPT ![st] = IF @ = "active" THEN "inactive" ELSE @]
    /\ slpc' = [slpc EXCEPT ![st] = "closed"]
    /\ sctx' = [sctx EXCEPT ![st] = TRUE]
    /\ UNCHANGED <<responseChan, rpc, sent, notRespVars>>

\* The client goes away: the context of the call is done.
StreamCtxCancel(st) ==
    /\ slpc[st] \in {"recv", "respond"}
    /\ ~sctx[st]
    /\ sctx' = [sctx EXCEPT ![st] = TRUE]
    /\ UNCHANGED <<slpc, responseChan, rpc, currentSession, sent, notRespVars>>

\* The response goroutine takes a response from responseChan and calls
\* stream.Send: on an error it logs and returns, and does nothing else.
ResponseSend(st) ==
    /\ rpc[st] = "running"
    /\ responseChan[st] > 0
    /\ responseChan' = [responseChan EXCEPT ![st] = @ - 1]
    /\ \/ /\ sent' = [sent EXCEPT ![st] = @ + 1]
          /\ UNCHANGED rpc
       \/ /\ rpc' = [rpc EXCEPT ![st] = "sendfailed"]
          /\ UNCHANGED sent
    /\ UNCHANGED <<slpc, sctx, currentSession, notRespVars>>

\* The response goroutine returns: ctx.Done(), or responseChan was closed by
\* the deferred close of a call that returned and is empty.
ResponseStop(st) ==
    /\ rpc[st] = "running"
    /\ sctx[st] \/ (slpc[st] = "closed" /\ responseChan[st] = 0)
    /\ rpc' = [rpc EXCEPT ![st] = "stopped"]
    /\ UNCHANGED <<slpc, sctx, responseChan, currentSession, sent, notRespVars>>

NextResp ==
    \E st \in Streams :
        \/ (\E bind \in BOOLEAN : StreamLogsTurn(st, bind))
        \/ StreamLogsRespond(st)
        \/ StreamLogsEnd(st)
        \/ StreamCtxCancel(st)
        \/ ResponseSend(st)
        \/ ResponseStop(st)

InitResp ==
    SchedInit({[c \in Calls |-> NoCall]}) /\ LogOff /\ ScaleOff /\ EgressOff /\ NameOff /\ RespInit /\ SweepOff /\ ManagerOff /\ BoundOff /\ StartOff /\ RegistryOff

SpecResp == InitResp /\ [][NextResp]_vars

\* ----------------------------------------------- CleanupInactiveSessions

\* Sessions registered in a run.
MaxTimedSessions == 2
\* Ticks the clock makes in a run.
MaxClock == 4
\* s.streamTimeout, 30 minutes, in ticks of ten minutes.
streamTimeout == 3

SweepInit ==
    /\ now = 0
    /\ timedSessions = <<>>

\* Time passes.
Tick ==
    /\ now < MaxClock
    /\ now' = now + 1
    /\ UNCHANGED <<timedSessions, notSweepVars>>

\* RegisterWorker stores a new session: CreatedAt is time.Now(), IsActive
\* true.
TimedRegister ==
    /\ Len(timedSessions) < MaxTimedSessions
    /\ timedSessions' =
          Append(timedSessions, [createdAt |-> now, active |-> TRUE, inMap |-> TRUE])
    /\ UNCHANGED <<now, notSweepVars>>

\* deactivateSession(sessionID) for a session of the map.
TimedDeactivate(sid) ==
    /\ timedSessions[sid].inMap
    /\ timedSessions[sid].active
    /\ timedSessions' = [timedSessions EXCEPT ![sid].active = FALSE]
    /\ UNCHANGED <<now, notSweepVars>>

\* A sweep that looks at IsActive only.
SweptInactiveOnly(session, cutoff) == ~session.active

\* The condition of the sweep: !session.IsActive ||
\* session.CreatedAt.Before(cutoff).
Swept(session, cutoff) == ~session.active \/ session.createdAt < cutoff

\* CleanupInactiveSessions, whole under s.mu.Lock(): cutoff is now minus the
\* stream timeout, and every session the condition holds for is deleted.
SweepSessions ==
    /\ timedSessions' =
          [sid \in DOMAIN timedSessions |->
             IF timedSessions[sid].inMap /\ Swept(timedSessions[sid], now - streamTimeout)
             THEN [timedSessions[sid] EXCEPT !.inMap = FALSE]
             ELSE timedSessions[sid]]
    /\ UNCHANGED <<now, notSweepVars>>

NextSweep ==
    \/ Tick
    \/ TimedRegister
    \/ \E sid \in DOMAIN timedSessions : TimedDeactivate(sid)
    \/ SweepSessions

InitSweep ==
    SchedInit({[c \in Calls |-> NoCall]}) /\ LogOff /\ ScaleOff /\ EgressOff /\ NameOff /\ RespOff
        /\ SweepInit /\ ManagerOff /\ BoundOff /\ StartOff /\ RegistryOff

SpecSweep == InitSweep /\ [][NextSweep]_vars

\* ------------------------------------------------------ OttoHandlerClient

\* Number of LogStream objects the client creates in a run.
MaxStreams == 2
\* ForwardLogEntry calls each caller makes, and the errors the response
\* goroutine of a stream counts at most.
MaxForwards == 1
\* The goroutines that call ForwardLogEntry.
Forwarders == {"f1", "f2"}

\* The streams registered in c.activeStreams under worker id w.
activeStreams(w) ==
    {n \in DOMAIN logStreams : logStreams[n].inMap /\ logStreams[n].worker = w}

\* &LogStream{...}: a new stream with zero counters; handler tells where
\* the handleStreamResponses goroutine of the stream is: "none" (not
\* running), "recv" (in its loop), "count" (processResponse has read
\* ErrorCount, the value is in hread, and not yet stored its increment) or
\* "cancel" (its deferred function has deleted the map entry).
NewLogStream(w, handler) ==
    [worker |-> w, inMap |-> TRUE, cancelled |-> FALSE, handler |-> handler,
     hread |-> 0, logCount |-> 0, errorCount |-> 0]

\* A caller outside ForwardLogEntry that has made the given number of calls.
IdleForward(made) == [pc |-> "idle", stream |-> 0, read |-> 0, made |-> made]

EgressInit ==
    /\ mockMode \in BOOLEAN
    /\ logStreams = <<>>
    /\ forwardCalls = [f \in Forwarders |-> IdleForward(0)]
    /\ egressRet = "none"

\* delete(c.activeStreams, w): whatever stream is under the key leaves the map.
deleteStream(strs, w) ==
    [n \in DOMAIN strs |->
        IF strs[n].worker = w THEN [strs[n] EXCEPT !.inMap = FALSE] ELSE strs[n]]

\* StartLogStream without the lookup: the new stream is stored beside the old.
StartLogStreamNoLookup(w) ==
    /\ Len(logStreams) < MaxStreams
    /\ \/ /\ mockMode
          /\ logStreams' = Append(logStreams, NewLogStream(w, "none"))
          /\ egressRet' = "nil"
       \/ /\ ~mockMode
          /\ \/ /\ egressRet' = "failed to create log stream"
                /\ UNCHANGED logStreams
             \/ /\ logStreams' = Append(logStreams, NewLogStream(w, "recv"))
                /\ egressRet' = "nil"
    /\ UNCHANGED <<mockMode, forwardCalls, notEgressVars>>

\* StartLogStream(ctx, workerID, taskID), under c.streamMu: a worker id that is
\* in the map is an error; in mock mode the stream is stored without a response
\* goroutine; otherwise ForwardWorkerLogs may fail, and on success the stream is
\* stored and its handleStreamResponses goroutine started.
StartLogStream(w) ==
    /\ IF activeStreams(w) # {}
       THEN /\ egressRet' = "log stream already exists"
            /\ UNCHANGED logStreams
       ELSE /\ Len(logStreams) < MaxStreams
            /\ \/ /\ mockMode
                  /\ logStreams' = Append(logStreams, NewLogStream(w, "none"))
                  /\ egressRet' = "nil"
               \/ /\ ~mockMode
                  /\ \/ /\ egressRet' = "failed to create log stream"
                        /\ UNCHANGED logStreams
                     \/ /\ logStreams' = Append(logStreams, NewLogStream(w, "recv"))
                        /\ egressRet' = "nil"
    /\ UNCHANGED <<mockMode, forwardCalls, notEgressVars>>

\* ForwardLogEntry(ctx, entry), the lookup under c.streamMu.RLock(): no
\* stream for the entry's worker is an error; otherwise the call keeps the
\* stream's pointer and goes on with no lock held.
ForwardLogEntry(f, w) ==
    /\ forwardCalls[f].pc = "idle"
    /\ forwardCalls[f].made < MaxForwards
    /\ IF activeStreams(w) = {}
       THEN /\ egressRet' = "no active stream"
            /\ forwardCalls' = [forwardCalls EXCEPT ![f].made = @ + 1]
       ELSE /\ \E n \in activeStreams(w) :
                 forwardCalls' =
                    [forwardCalls EXCEPT
                       ![f] = [pc |-> "held", stream |-> n, read |-> 0, made |-> @.made + 1]]
            /\ egressRet' = "none"
    /\ UNCHANGED <<mockMode, logStreams, notEgressVars>>

\* "stream.LogCount++", the read: no lock guards the field.
ForwardLogCountRead(f) ==
    /\ forwardCalls[f].pc = "held"
    /\ forwardCalls' =
          [forwardCalls EXCEPT ![f].pc = "loaded",
                               ![f].read = logStreams[forwardCalls[f].stream].logCount]
    /\ egressRet' = "none"
    /\ UNCHANGED <<mockMode, logStreams, notEgressVars>>

\* "stream.LogCount++", the write: one more than the value read. The call
\* then waits: in mock mode in the select on the timer and ctx.Done(),
\* otherwise in stream.Stream.Send.
ForwardLogCountWrite(f) ==
    /\ forwardCalls[f].pc = "loaded"
    /\ logStreams' =
          [logStreams EXCEPT ![forwardCalls[f].stream].logCount = forwardCalls[f].read + 1]
    /\ forwardCalls' = [forwardCalls EXCEPT ![f].pc = "sending", ![f].read = 0]
    /\ egressRet' = "none"
    /\ UNCHANGED <<mockMode, notEgressVars>>

\* The wait of the call ends. Mock mode: the timer fires and the call
\* returns nil, or the caller's context is done and it returns ctx.Err().
\* Otherwise Send returns nil and so does the call, or Send fails and the call
\* reads ErrorCount for "stream.ErrorCount++", again with no lock held.
ForwardLogEntrySend(f) ==
    /\ forwardCalls[f].pc = "sending"
    /\ \/ /\ egressRet' = "nil"
          /\ forwardCalls' = [forwardCalls EXCEPT ![f] = IdleForward(@.made)]
       \/ /\ mockMode
          /\ egressRet' = "context done"
          /\ forwardCalls' = [forwardCalls EXCEPT ![f] = IdleForward(@.made)]
       \/ /\ ~mockMode
          /\ egressRet' = "none"
          /\ forwardCalls' =
                [forwardCalls EXCEPT
                   ![f].pc = "failed",
                   ![f].read = logStreams[forwardCalls[f].stream].errorCount]
    /\ UNCHANGED <<mockMode, logStreams, notEgressVars>>

\* "stream.ErrorCount++" of a failed Send, the write, and the return of the
\* error.
ForwardErrorCountWrite(f) ==
    /\ forwardCalls[f].pc = "failed"
    /\ logStreams' =
          [logStreams EXCEPT ![forwardCalls[f].stream].errorCount = forwardCalls[f].read + 1]
    /\ forwardCalls' = [forwardCalls EXCEPT ![f] = IdleForward(@.made)]
    /\ egressRet' = "failed to send log entry"
    /\ UNCHANGED <<mockMode, notEgressVars>>

\* processResponse(stream, response), called by the stream's response
\* goroutine after Recv returned a response: RETRY and DROP count an error,
\* ACK counts nothing. This is the read of "stream.ErrorCount++".
processResponse(n) ==
    /\ logStreams[n].handler = "recv"
    /\ ~logStreams[n].cancelled
    /\ logStreams[n].errorCount < MaxForwards
    /\ logStreams' = [logStreams EXCEPT ![n].handler = "count",
                                        ![n].hread = logStreams[n].errorCount]
    /\ egressRet' = "none"
    /\ UNCHANGED <<mockMode, forwardCalls, notEgressVars>>

\* The write of processResponse's "stream.ErrorCount++"; the goroutine is
\* back in its loop.
processResponseWrite(n) ==
    /\ logStreams[n].handler = "count"
    /\ logStreams' = [logStreams EXCEPT ![n].handler = "recv", ![n].hread = 0,
                                        ![n].errorCount = logStreams[n].hread + 1]
    /\ egressRet' = "none"
    /\ UNCHANGED <<mockMode, forwardCalls, notEgressVars>>

\* The stream's context ends (its timeout, or the caller's context it derives
\* from): nothing is removed from the map by that alone.
StreamCtxDone(n) ==
    /\ ~logStreams[n].cancelled
    /\ logStreams' = [logStreams EXCEPT ![n].cancelled = TRUE]
    /\ egressRet' = "none"
    /\ UNCHANGED <<mockMode, forwardCalls, notEgressVars>>

\* handleStreamResponses returns (context done, EOF or a receive error): its
\* deferred function deletes the map entry of the stream's worker id under
\* c.streamMu; stream.Cancel() is still to come.
handleStreamResponsesExit(n) ==
    /\ logStreams[n].handler = "recv"
    /\ logStreams' =
         [deleteStream(logStreams, logStreams[n].worker) EXCEPT ![n].handler = "cancel"]
    /\ egressRet' = "none"
    /\ UNCHANGED <<mockMode, forwardCalls, notEgressVars>>

\* The deferred function, the lock released, cancels the stream; the
\* goroutine is over.
handleStreamResponsesCancel(n) ==
    /\ logStreams[n].handler = "cancel"
    /\ logStreams' = [logStreams EXCEPT ![n].handler = "none", ![n].cancelled = TRUE]
    /\ egressRet' = "none"
    /\ UNCHANGED <<mockMode, forwardCalls, notEgressVars>>

\* CloseLogStream(workerID), under c.streamMu: nothing to do without a stream;
\* otherwise the stream is cancelled and its entry deleted.
CloseLogStream(w) ==
    /\ logStreams' =
         [n \in DOMAIN logStreams |->
            IF n \in activeStreams(w)
            THEN [logStreams[n] EXCEPT !.cancelled = TRUE, !.inMap = FALSE]
            ELSE logStreams[n]]
    /\ egressRet' = "nil"
    /\ UNCHANGED <<mockMode, forwardCalls, notEgressVars>>

\* closeAllStreams(), under c.streamMu: every registered stream is cancelled
\* and the map replaced by an empty one.
closeAllStreams ==
    /\ \E n \in DOMAIN logStreams : logStreams[n].inMap
    /\ logStreams' =
         [n \in DOMAIN logStreams |->
            IF logStreams[n].inMap
            THEN [logStreams[n] EXCEPT !.cancelled = TRUE, !.inMap = FALSE]
            ELSE logStreams[n]]
    /\ egressRet' = "none"
    /\ UNCHANGED <<mockMode, forwardCalls, notEgressVars>>

NextEgress ==
    \/ \E w \in WorkerIds : StartLogStream(w)
    \/ \E f \in Forwarders :
          \/ (\E w \in WorkerIds : ForwardLogEntry(f, w))
          \/ ForwardLogCountRead(f) \/ ForwardLogCountWrite(f)
          \/ ForwardLogEntrySend(f) \/ ForwardErrorCountWrite(f)
    \/ \E n \in DOMAIN logStreams : processResponse(n)
    \/ \E n \in DOMAIN logStreams : processResponseWrite(n)
    \/ \E n \in DOMAIN logStreams : StreamCtxDone(n)
    \/ \E n \in DOMAIN logStreams : handleStreamResponsesExit(n)
    \/ \E n \in DOMAIN logStreams : handleStreamResponsesCancel(n)
    \/ \E w \in WorkerIds : CloseLogStream(w)
    \/ closeAllStreams

InitEgress == SchedInit({[c \in Calls |-> NoCall]}) /\ LogOff /\ ScaleOff /\ EgressInit /\ NameOff /\ RespOff /\ SweepOff /\ ManagerOff /\ BoundOff /\ StartOff /\ RegistryOff

SpecEgress == InitEgress /\ [][NextEgress]_vars

\* ----------------------------------------------------- worker spec names

\* Longest id given to createWorkerConfigs.
MaxIdLen == 51
\* Largest worker count given to createWorkerConfigs.
MaxWorkerCount == 10
\* sanitizeTaskID keeps this many characters of a task id.
maxTaskIDLen == 50
\* Longest DNS label.
maxLabelLen == 63

\* A string is the sequence of its characters; ids are made of these.
IdChars == {"a", "B", "_", "."}

\* n copies of the character ch.
Rep(ch, n) == [k \in 1..n |-> ch]

\* The ids tried: every length of one repeated character, and mixed ones.
IdStrings ==
    {Rep(ch, n) : ch \in IdChars, n \in 1..MaxIdLen}
        \cup {<<"a", "_", "B">>, <<"B", ".", "a">>, <<"a", "-", "a">>}

\* The stage ids tried.
StageIdStrings == {<<"a">>, <<"B">>, <<"a", "_", "a">>}

NameRequests ==
    [kind : {"stage"}, pipeline : IdStrings, stage : StageIdStrings,
     count : 1..MaxWorkerCount]
        \cup [kind : {"agent"}, task : IdStrings, count : 1..MaxWorkerCount]

\* strings.ReplaceAll(s, old, new) for one-character old and new.
ReplaceAll(s, old, new) == [k \in 1..Len(s) |-> IF s[k] = old THEN new ELSE s[k]]

\* strings.ToLower(s) on the characters of IdChars.
ToLower(s) == [k \in 1..Len(s) |-> IF s[k] = "B" THEN "b" ELSE s[k]]

\* sanitizeTaskID(taskID): '_' and '.' become '-', lower case, the first 50
\* characters.
sanitizeTaskID(taskID) ==
    LET sanitized == ToLower(ReplaceAll(ReplaceAll(taskID, "_", "-"), ".", "-"))
    IN  IF Len(sanitized) > maxTaskIDLen
        THEN SubSeq(sanitized, 1, maxTaskIDLen)
        ELSE sanitized

\* The decimal digits, by value.
DigitChars == <<"0", "1", "2", "3", "4", "5", "6", "7", "8", "9">>

\* %d of a positive number.
RECURSIVE Itoa(_)
Itoa(n) ==
    IF n < 10 THEN <<DigitChars[n + 1]>>
    ELSE Itoa(n \div 10) \o <<DigitChars[(n % 10) + 1]>>

\* fmt.Sprintf("otto-%s-%s-%d", e.pipeline.PipelineId, stage.StageId, i)
StageWorkerID(pipeline, stage, i) ==
    <<"o", "t", "t", "o", "-">> \o pipeline \o <<"-">> \o stage \o <<"-">> \o Itoa(i)

\* fmt.Sprintf("otto-agent-%s-%d", sanitizeTaskID(req.TaskId), i)
AgentWorkerID(task, i) ==
    <<"o", "t", "t", "o", "-", "a", "g", "e", "n", "t", "-">>
        \o sanitizeTaskID(task) \o <<"-">> \o Itoa(i)

NameInit ==
    /\ nameReq \in NameRequests
    /\ names = <<>>

\* Executor.createWorkerConfigs(stage): one config per index 1..WorkerCount.
ExecutorCreateWorkerConfigs ==
    /\ nameReq.kind = "stage"
    /\ names = <<>>
    /\ names' = [i \in 1..nameReq.count |->
                    StageWorkerID(nameReq.pipeline, nameReq.stage, i)]
    /\ UNCHANGED <<nameReq, notNameVars>>

\* Server.createWorkerConfigs(req): one config per index 1..WorkerCount.
ServerCreateWorkerConfigs ==
    /\ nameReq.kind = "agent"
    /\ names = <<>>
    /\ names' = [i \in 1..nameReq.count |-> AgentWorkerID(nameReq.task, i)]
    /\ UNCHANGED <<nameReq, notNameVars>>

NextNames ==
    \/ ExecutorCreateWorkerConfigs
    \/ ServerCreateWorkerConfigs

InitNames == SchedInit({[c \in Calls |-> NoCall]}) /\ LogOff /\ ScaleOff /\ EgressOff /\ NameInit /\ RespOff /\ SweepOff /\ ManagerOff /\ BoundOff /\ StartOff /\ RegistryOff

SpecNames == InitNames /\ [][NextNames]_vars

\* ------------------------ Manager.CreateAndWaitForWorker, gateway answers
\* The calls followed one by one, each with its own pod and context.
MaxManagerCalls == 2
MaxGetPodErrors == 2
ManagerCalls == 1 .. MaxManagerCalls

ManagerInit ==
    /\ mpc = [m \in ManagerCalls |-> "create"]
    /\ mpod = [m \in ManagerCalls |-> "None"]
    /\ mctx = [m \in ManagerCalls |-> FALSE]
    /\ getPodErrors = [m \in ManagerCalls |-> 0]
    /\ mret = [m \in ManagerCalls |-> "none"]

\* CleanupPod on the background context: DeletePod removes the pod, or fails
\* and leaves it; the failure is logged only.
ManagerCleanupPod(phase, ok) == IF ok THEN "Deleted" ELSE phase

\* CreateWorkerPod: the gateway creates the pod, or returns an error and the
\* call ends with "worker creation failed" (no pod, no cleanup).
ManagerCreate(m) ==
    /\ mpc[m] = "create"
    /\ \E ok \in BOOLEAN :
          IF ok
          THEN /\ mpod' = [mpod EXCEPT ![m] = "Active"]
               /\ mpc' = [mpc EXCEPT ![m] = "wait"]
               /\ UNCHANGED mret
          ELSE /\ mpc' = [mpc EXCEPT ![m] = "done"]
               /\ mret' = [mret EXCEPT ![m] = "worker creation failed"]
               /\ UNCHANGED mpod
    /\ UNCHANGED <<mctx, getPodErrors, notMgrVars>>

\* A tick of WaitForPodCompletion whose GetPod returns an error: the error is
\* logged and the loop continues.
ManagerGetPodError(m) ==
    /\ mpc[m] = "wait"
    /\ getPodErrors[m] < MaxGetPodErrors
    /\ getPodErrors' = [getPodErrors EXCEPT ![m] = @ + 1]
    /\ UNCHANGED <<mpc, mpod, mctx, mret, notMgrVars>>

\* A tick whose GetPod reads a terminal phase: the wait returns nil or
\* "pod failed", the pod is cleaned up and the call returns nil or
\* "worker failed". (A tick that reads an active pod changes nothing.)
ManagerPoll(m) ==
    /\ mpc[m] = "wait"
    /\ PollOutcome(mpod[m]) # "none"
    /\ \E ok \in BOOLEAN : mpod' = [mpod EXCEPT ![m] = ManagerCleanupPod(@, ok)]
    /\ mret' = [mret EXCEPT ![m] = IF PollOutcome(mpod[m]) = "succeeded"
                                   THEN "nil" ELSE "worker failed: pod failed"]
    /\ mpc' = [mpc EXCEPT ![m] = "done"]
    /\ UNCHANGED <<mctx, getPodErrors, notMgrVars>>

\* The caller's context is cancelled or times out.
ManagerCtxCancel(m) ==
    /\ mpc[m] # "done"
    /\ ~mctx[m]
    /\ mctx' = [mctx EXCEPT ![m] = TRUE]
    /\ UNCHANGED <<mpc, mpod, getPodErrors, mret, notMgrVars>>

\* The wait's select takes ctx.Done(): the wait returns ctx.Err(), the pod is
\* cleaned up and the call returns "worker failed".
ManagerCtxDone(m) ==
    /\ mpc[m] = "wait"
    /\ mctx[m]
    /\ \E ok \in BOOLEAN : mpod' = [mpod EXCEPT ![m] = ManagerCleanupPod(@, ok)]
    /\ mret' = [mret EXCEPT ![m] = "worker failed: context canceled"]
    /\ mpc' = [mpc EXCEPT ![m] = "done"]
    /\ UNCHANGED <<mctx, getPodErrors, notMgrVars>>

\* The call's pod ends on its own.
ManagerPodPhase(m) ==
    /\ \E to \in Phases :
          /\ PhaseStep(mpod[m], to)
          /\ mpod' = [mpod EXCEPT ![m] = to]
    /\ UNCHANGED <<mpc, mctx, getPodErrors, mret, notMgrVars>>

NextManager ==
    \E m \in ManagerCalls :
        \/ ManagerCreate(m)
        \/ ManagerGetPodError(m)
        \/ ManagerPoll(m)
        \/ ManagerCtxCancel(m)
        \/ ManagerCtxDone(m)
        \/ ManagerPodPhase(m)

InitManager ==
    SchedInit({[c \in Calls |-> NoCall]}) /\ LogOff /\ ScaleOff /\ EgressOff /\ NameOff
        /\ RespOff /\ SweepOff /\ ManagerInit /\ BoundOff /\ StartOff /\ RegistryOff

SpecManager == InitManager /\ [][NextManager]_vars

\* ------------------------------------- StreamLogs, streams of one session
\* A registered worker's session, and the StreamLogs calls whose first entry
\* bound them to it (findSessionByWorker returns the same active session to
\* every caller). Each lock is a step of its own; the write made under it
\* and the unlock are one step.
BoundInit ==
    /\ kpc = [st \in Streams |-> "recv"]
    /\ kentry = [st \in Streams |-> "none"]
    /\ kloaded = [st \in Streams |-> 0]
    /\ krecvd = 0
    /\ sessionMu = "free"
    /\ serverMu = "free"
    /\ boundSession = [lastActive |-> "none", errorCount |-> 0, logCount |-> 0,
                       active |-> TRUE, inMap |-> TRUE, stopChan |-> "open"]
    /\ panicked = FALSE

\* stream.Recv returns an entry of the worker, its fields complete or not.
BoundRecv(st, e) ==
    /\ ~panicked
    /\ kpc[st] = "recv"
    /\ krecvd < MaxEntries
    /\ krecvd' = krecvd + 1
    /\ kentry' = [kentry EXCEPT ![st] = e]
    /\ kpc' = [kpc EXCEPT ![st] = "touch"]
    /\ UNCHANGED <<kloaded, sessionMu, serverMu, boundSession, panicked, notBoundVars>>

\* processLogEntry: session.mu.Lock() before the write of LastActive, and
\* before each ErrorCount++.
SessionLock(st) ==
    /\ ~panicked
    /\ kpc[st] \in {"touch", "err"}
    /\ sessionMu = "free"
    /\ sessionMu' = st
    /\ kpc' = [kpc EXCEPT ![st] = IF kpc[st] = "touch" THEN "touching" ELSE "erring"]
    /\ UNCHANGED <<kentry, kloaded, krecvd, serverMu, boundSession, panicked, notBoundVars>>

\* "session.LastActive = time.Now(); session.mu.Unlock()", then the field
\* checks: a missing field goes to the error count.
TouchLastActive(st) ==
    /\ ~panicked
    /\ kpc[st] = "touching"
    /\ boundSession' = [boundSession EXCEPT !.lastActive = st]
    /\ sessionMu' = "free"
    /\ kpc' = [kpc EXCEPT ![st] = IF kentry[st] = "complete" THEN "forward" ELSE "err"]
    /\ UNCHANGED <<kentry, kloaded, krecvd, serverMu, panicked, notBoundVars>>

\* forwardLogEntryWithRetry returns nil or an error.
BoundForward(st, ok) ==
    /\ ~panicked
    /\ kpc[st] = "forward"
    /\ kpc' = [kpc EXCEPT ![st] = IF ok THEN "count" ELSE "err"]
    /\ UNCHANGED <<kentry, kloaded, krecvd, sessionMu, serverMu, boundSession, panicked,
                   notBoundVars>>

\* "select { case responseChan <- response: case <-ctx.Done(): return
\* ctx.Err() }" at the end of a turn: the response is queued and the loop
\* goes on, or the context is done and StreamLogs returns at once, without
\* deactivateSession.
AfterTurn(done) == IF done THEN "returned" ELSE "recv"

\* "session.ErrorCount++; session.mu.Unlock()"; the turn ends with the
\* select that offers the RETRY.
ErrorCountWrite(st, done) ==
    /\ ~panicked
    /\ kpc[st] = "erring"
    /\ boundSession' = [boundSession EXCEPT !.errorCount = @ + 1]
    /\ sessionMu' = "free"
    /\ kpc' = [kpc EXCEPT ![st] = AfterTurn(done)]
    /\ kentry' = [kentry EXCEPT ![st] = "none"]
    /\ UNCHANGED <<kloaded, krecvd, serverMu, panicked, notBoundVars>>

\* StreamLogs: "currentSession.LogCount++", no lock taken: the read of the
\* field ...
LogCountRead(st) ==
    /\ ~panicked
    /\ kpc[st] = "count"
    /\ kloaded' = [kloaded EXCEPT ![st] = boundSession.logCount]
    /\ kpc' = [kpc EXCEPT ![st] = "counting"]
    /\ UNCHANGED <<kentry, krecvd, sessionMu, serverMu, boundSession, panicked, notBoundVars>>

\* ... and the write of one more than the value read; the turn ends with
\* the select that offers the ACK.
LogCountWrite(st, done) ==
    /\ ~panicked
    /\ kpc[st] = "counting"
    /\ boundSession' = [boundSession EXCEPT !.logCount = kloaded[st] + 1]
    /\ kloaded' = [kloaded EXCEPT ![st] = 0]
    /\ kpc' = [kpc EXCEPT ![st] = AfterTurn(done)]
    /\ kentry' = [kentry EXCEPT ![st] = "none"]
    /\ UNCHANGED <<krecvd, sessionMu, serverMu, panicked, notBoundVars>>

\* The stream ends (ctx.Done(), io.EOF or a receive error): the call goes
\* to deactivateSession(currentSession.SessionID).
BoundStreamEnd(st) ==
    /\ ~panicked
    /\ kpc[st] = "recv"
    /\ kpc' = [kpc EXCEPT ![st] = "deactivate"]
    /\ UNCHANGED <<kentry, kloaded, krecvd, sessionMu, serverMu, boundSession, panicked,
                   notBoundVars>>

\* deactivateSession: s.mu.Lock().
ServerLock(st) ==
    /\ ~panicked
    /\ kpc[st] = "deactivate"
    /\ serverMu = "free"
    /\ serverMu' = st
    /\ kpc' = [kpc EXCEPT ![st] = "deactivating"]
    /\ UNCHANGED <<kentry, kloaded, krecvd, sessionMu, boundSession, panicked, notBoundVars>>

\* deactivateSession with s.mu held: if the map holds the session,
\* "session.IsActive = false; close(session.stopChan)"; then the unlock and
\* the return of StreamLogs.
DeactivateLocked(st) ==
    /\ ~panicked
    /\ kpc[st] = "deactivating"
    /\ IF boundSession.inMap
       THEN /\ boundSession' = [boundSession EXCEPT
                   !.active = FALSE,
                   !.stopChan = IF CloseChan(@) = "panic" THEN @ ELSE CloseChan(@)]
            /\ panicked' = (CloseChan(boundSession.stopChan) = "panic")
       ELSE UNCHANGED <<boundSession, panicked>>
    /\ serverMu' = "free"
    /\ kpc' = [kpc EXCEPT ![st] = "returned"]
    /\ UNCHANGED <<kentry, kloaded, krecvd, sessionMu, notBoundVars>>

\* CleanupInactiveSessions, whole under s.mu: the session leaves the map if
\* it is inactive or was created before the cutoff (old, as the clock says).
BoundCleanup(old) ==
    /\ ~panicked
    /\ serverMu = "free"
    /\ boundSession.inMap
    /\ ~boundSession.active \/ old
    /\ boundSession' = [boundSession EXCEPT !.inMap = FALSE]
    /\ UNCHANGED <<kpc, kentry, kloaded, krecvd, sessionMu, serverMu, panicked, notBoundVars>>

NextBound ==
    \/ \E st \in Streams :
          \/ (\E e \in {"complete", "incomplete"} : BoundRecv(st, e))
          \/ SessionLock(st) \/ TouchLastActive(st)
          \/ (\E ok \in BOOLEAN : BoundForward(st, ok))
          \/ (\E done \in BOOLEAN : ErrorCountWrite(st, done))
          \/ LogCountRead(st)
          \/ (\E done \in BOOLEAN : LogCountWrite(st, done))
          \/ BoundStreamEnd(st) \/ ServerLock(st) \/ DeactivateLocked(st)
    \/ \E old \in BOOLEAN : BoundCleanup(old)

InitBound ==
    SchedInit({[c \in Calls |-> NoCall]}) /\ LogOff /\ ScaleOff /\ EgressOff /\ NameOff
        /\ RespOff /\ SweepOff /\ ManagerOff /\ BoundInit /\ StartOff /\ RegistryOff

SpecBound == InitBound /\ [][NextBound]_vars

\* ------------------------------------------------------------ Server.Start
\* Start serves until its context is done or Serve fails.
StartInit == startpc = "serving"

\* The RPCs in flight: what grpcServer.GracefulStop waits for.
PendingRPCs == {c \in Calls : callpc[c] \notin {"idle", "returned"}}

\* "case <-ctx.Done()": Start logs and calls grpcServer.GracefulStop(), which
\* accepts no new RPC. Nothing is done to the executors of the registry.
ShutdownSignal ==
    /\ startpc = "serving"
    /\ startpc' = "stopping"
    /\ UNCHANGED notStartVars

\* GracefulStop returns once no RPC is pending, then Start returns ctx.Err().
GracefulStop ==
    /\ startpc = "stopping"
    /\ PendingRPCs = {}
    /\ startpc' = "returned"
    /\ UNCHANGED notStartVars

\* "case err := <-errChan": Serve failed and Start returns the error.
ServeFailed ==
    /\ startpc = "serving"
    /\ startpc' = "returned"
    /\ UNCHANGED notStartVars

\* An ExecutePipeline call is admitted while the server accepts RPCs.
AdmitCall(c) == startpc = "serving" /\ CallCheck(c)

\* A handler's own steps: the registration, Execute and the send loop.
HandlerStep(c) ==
    \/ CallStore(c) \/ CallExecute(c) \/ CallRecv(c) \/ CallSend(c) \/ CallSendFail(c)
    \/ CallReturn(c) \/ CallDeferred(c)

NextShutdown ==
    \/ ShutdownSignal \/ GracefulStop \/ ServeFailed
    \/ \E c \in Calls : AdmitCall(c) \/ HandlerStep(c) \/ Cancel(c)
    \/ \E c \in Calls :
          \/ PipelineStart(c) \/ ExecuteLevel(c)
          \/ PipelineCompleted(c) \/ handlePipelineFailure(c)
    \/ \E c \in Calls, s \in AllStages :
          \/ StageBegin(c, s) \/ StageWorkersFailed(c, s) \/ StageCompleted(c, s)
          \/ StageFailed(c, s)
    \/ \E c \in Calls, s \in AllStages, i \in WorkerIdx :
          \/ WorkerCreate(c, s, i) \/ WorkerCreateFail(c, s, i)
          \/ WorkerPoll(c, s, i) \/ WorkerCtxDone(c, s, i)
    \/ \E n \in PodNames : PodPhase(n)

\* One ExecutePipeline call of one stage and one worker, and Start.
ShutdownRequests ==
    { r \in [Calls -> ServerRequests \cup {NoCall}] :
        r["c1"] # NoCall /\ r["c2"] = NoCall }

InitShutdown ==
    SchedInit(ShutdownRequests) /\ LogOff /\ ScaleOff /\ EgressOff /\ NameOff
        /\ RespOff /\ SweepOff /\ ManagerOff /\ BoundOff /\ StartInit /\ RegistryOff

\* Goroutines run, sends to the client complete and GracefulStop returns
\* when it can. Nothing is assumed of the client's cancellation or of the
\* pods' own progress.
ShutdownFairness ==
    /\ \A c \in Calls : WF_vars(ExecutorStep(c)) /\ WF_vars(HandlerStep(c))
    /\ WF_vars(GracefulStop)

SpecShutdown == InitShutdown /\ [][NextShutdown]_vars /\ ShutdownFairness

\* --------------------------------------- RegisterWorker, repeated sessions
\* Sessions created in a run.
MaxRegistered == 3

RegistryInit == regSessions = <<>> /\ regStatus = "NONE"

\* The sessions of the map that are active for worker w.
ActiveSessionsOf(w) ==
    {sid \in DOMAIN regSessions :
        regSessions[sid].inMap /\ regSessions[sid].active /\ regSessions[sid].worker = w}

\* RegisterWorker without the loop that looks for an active session of the
\* worker.
RegistryRegisterWorkerNoLookup(w) ==
    /\ IF Cardinality(ActiveSessionsOf(w)) >= maxSessionsPerWorker
       THEN /\ regStatus' = "SERVER_FULL"
            /\ UNCHANGED regSessions
       ELSE /\ Len(regSessions) < MaxRegistered
            /\ regSessions' = Append(regSessions, [worker |-> w, active |-> TRUE, inMap |-> TRUE])
            /\ regStatus' = "SUCCESS"
    /\ UNCHANGED notRegistryVars

\* RegisterWorker with a valid request of worker w, whole under s.mu.Lock():
\* ALREADY_REGISTERED if the map holds an active session of w, SERVER_FULL
\* at the cap, else a new active session is stored.
RegistryRegisterWorker(w) ==
    /\ IF ActiveSessionsOf(w) # {}
       THEN /\ regStatus' = "ALREADY_REGISTERED"
            /\ UNCHANGED regSessions
       ELSE IF Cardinality(ActiveSessionsOf(w)) >= maxSessionsPerWorker
       THEN /\ regStatus' = "SERVER_FULL"
            /\ UNCHANGED regSessions
       ELSE /\ Len(regSessions) < MaxRegistered
            /\ regSessions' = Append(regSessions, [worker |-> w, active |-> TRUE, inMap |-> TRUE])
            /\ regStatus' = "SUCCESS"
    /\ UNCHANGED notRegistryVars

\* deactivateSession(sessionID) by a StreamLogs call bound to the session:
\* the session becomes inactive if the map holds it.
RegistryDeactivate(sid) ==
    /\ regSessions[sid].active
    /\ regSessions[sid].inMap
    /\ regSessions' = [regSessions EXCEPT ![sid].active = FALSE]
    /\ UNCHANGED <<regStatus, notRegistryVars>>

\* CleanupInactiveSessions: every session that is inactive or older than the
\* cutoff (old, whichever sessions the clock says) leaves the map.
RegistryCleanup(old) ==
    /\ \E sid \in DOMAIN regSessions :
          regSessions[sid].inMap /\ (~regSessions[sid].active \/ sid \in old)
    /\ regSessions' = [sid \in DOMAIN regSessions |->
          IF regSessions[sid].inMap /\ (~regSessions[sid].active \/ sid \in old)
          THEN [regSessions[sid] EXCEPT !.inMap = FALSE]
          ELSE regSessions[sid]]
    /\ UNCHANGED <<regStatus, notRegistryVars>>

NextRegistry ==
    \/ \E w \in WorkerIds : RegistryRegisterWorker(w)
    \/ \E sid \in DOMAIN regSessions : RegistryDeactivate(sid)
    \/ \E old \in SUBSET (DOMAIN regSessions) : RegistryCleanup(old)

InitRegistry ==
    SchedInit({[c \in Calls |-> NoCall]}) /\ LogOff /\ ScaleOff /\ EgressOff /\ NameOff
        /\ RespOff /\ SweepOff /\ ManagerOff /\ BoundOff /\ StartOff /\ RegistryInit

SpecRegistry == InitRegistry /\ [][NextRegistry]_vars

\* ------------------------------------------------------------------ claims
\* The workers of call c that CreateAndWaitForWorker has returned from after
\* a successful pod creation.
ReturnedAfterCreate(c, s, i) ==
    wpc[c][s][i] = "done" /\ wres[c][s][i] \in {"succeeded", "podfailed", "cancelled"}

\* C1 as stated: when CreateAndWaitForWorker returns after a successful
\* creation, the pod no longer exists.
C1_PodGoneOnReturn ==
    \A c \in Calls, s \in AllStages, i \in WorkerIdx :
        ReturnedAfterCreate(c, s, i) => pods[PodName(c, s, i)] = "None"

\* C1 amended: when CreateAndWaitForWorker returns after a successful
\* creation (pod succeeded, pod failed or context cancelled), a cleanup delete
\* has been issued for the pod, and the pod no longer exists if that delete
\* succeeded.
C1_CleanupIssuedOnReturn ==
    \A c \in Calls, s \in AllStages, i \in WorkerIdx :
        ReturnedAfterCreate(c, s, i) =>
            /\ wdel[c][s][i] # "none"
            /\ wdel[c][s][i] = "ok" => pods[PodName(c, s, i)] = "None"

\* A worker cancelled while waiting has returned and its pod is deleted; and
\* another exit path, a failed pod, has been taken too.
C1_Witness ==
    \E c \in Calls, s \in AllStages, i \in WorkerIdx :
        /\ wpc[c][s][i] = "done" /\ wres[c][s][i] = "cancelled"
        /\ wdel[c][s][i] = "ok" /\ pods[PodName(c, s, i)] = "None"
        /\ created[c][s] >= 1

\* C3 as stated: a call whose stream ended normally (the range loop saw the
\* channel closed and the call returned nil) received a pipeline-level
\* completed or failed event as its last event.
C3_TerminalEventDelivered ==
    \A c \in Calls : callResult[c] = "ok" => IsTerminal(lastSent[c])

\* C4: the sequence of events the executor emits starts with a pipeline-level
\* event; it holds at most one terminal pipeline-level event, which is then
\* the last event emitted; and when the stream is closed it holds exactly one.
C4_OneTerminalEventLast ==
    \A c \in Calls :
        /\ emitCount[c] > 0 => emitFirst[c].stageId = PipelineLevel
        /\ emitTerminal[c] <= 1
        /\ emitTerminal[c] = 1 => IsTerminal(emitLast[c])
        /\ closed[c] => emitTerminal[c] = 1

\* A failed pipeline has closed its stream after stage events were emitted.
C4_Witness ==
    \E c \in Calls :
        /\ closed[c] /\ emitCount[c] >= 4 /\ emitTerminal[c] = 1
        /\ emitLast[c] = PipelineEvent("FAILED")

\* C5: a stage whose status is COMPLETED had every worker of its current
\* attempt observed in phase Succeeded; none of them failed or was cancelled.
C5_CompletedOnlyIfAllSucceeded ==
    \A c \in Calls : \A s \in StagesOf(c) :
        stageStatus[c][s] = "COMPLETED" =>
            \A i \in WorkersOf(c, s) : wres[c][s][i] = "succeeded"

\* A stage with two workers completed on its second attempt.
C5_Witness ==
    \E c \in Calls : \E s \in StagesOf(c) :
        /\ stageStatus[c][s] = "COMPLETED"
        /\ req[c].wc[s] = 2 /\ attempts[c][s] = 2

\* C6: the pipeline-level completed event is emitted only when every stage is
\* COMPLETED; once a stage has returned its error and the pipeline is over, no
\* stage is PENDING and the terminal event is failed; a SKIPPED stage was
\* never started and no pod was created for it.
C6_CompletedOnlyIfAllStagesCompleted ==
    \A c \in Calls :
        /\ emitLast[c] = PipelineEvent("COMPLETED") =>
               \A s \in StagesOf(c) : stageStatus[c][s] = "COMPLETED"
        /\ (closed[c] /\ \E s \in StagesOf(c) : stageErr[c][s]) =>
               /\ emitLast[c] = PipelineEvent("FAILED")
               /\ \A s \in StagesOf(c) : stageStatus[c][s] # "PENDING"
        /\ \A s \in StagesOf(c) :
               stageStatus[c][s] = "SKIPPED" =>
                   /\ attempts[c][s] = 0 /\ created[c][s] = 0
                   /\ \A i \in WorkerIdx : pods[PodName(c, s, i)] = "None"

\* Stage a failed after its retry, stage b, which depends on it, is skipped.
C6_Witness ==
    \E c \in Calls :
        /\ closed[c] /\ ~cancelled[c]
        /\ StagesOf(c) = {"a", "b"}
        /\ stageStatus[c]["a"] = "FAILED" /\ attempts[c]["a"] = 2
        /\ stageStatus[c]["b"] = "SKIPPED"
        /\ emitLast[c] = PipelineEvent("FAILED")

\* A dependency graph has a cycle when some non-empty set of stages has every
\* member depending on a member of the set.
HasCycle(r) ==
    \E S \in SUBSET r.stages :
        /\ S # {}
        /\ \A s \in S : r.deps[s] \cap S # {}

\* C8: for a request whose dependency graph has a cycle, a self-edge
\* included, the call fails at Execute: it never streams, its executor never
\* starts, no event is emitted and no pod is created.
C8_CycleRejected ==
    \A c \in Calls :
        (req[c].call /\ ~req[c].nil /\ HasCycle(req[c])) =>
            /\ ~InSendLoop(c) /\ epc[c] = "idle"
            /\ callResult[c] \in {"none", "internal"}
            /\ emitCount[c] = 0 /\ progressStream[c] = <<>>
            /\ \A s \in AllStages : created[c][s] = 0 /\ attempts[c][s] = 0

\* A request whose only stage depends on itself has been refused.
C8_Witness ==
    \E c \in Calls :
        /\ req[c].call /\ ~req[c].nil
        /\ req[c].stages = {"a"} /\ "a" \in req[c].deps["a"]
        /\ callpc[c] = "returned" /\ callResult[c] = "internal"

\* A stage of call c with a retry policy and at least one worker has returned
\* with every worker of every attempt having run a pod that failed, and the
\* pipeline was not cancelled.
AlwaysFailingStageDone(c, s) ==
    /\ s \in StagesOf(c)
    /\ req[c].retry[s] # NoPolicy /\ req[c].wc[s] >= 1
    /\ spc[c][s] = "done" /\ allPodFailed[c][s]
    /\ ~cancelled[c]

\* C9 as stated: such a stage was attempted N+1 times, (N+1) x worker_count
\* pods were created and as many deleted, and its last event is failed.
C9_RetriesCreateAndDelete ==
    \A c \in Calls, s \in AllStages :
        AlwaysFailingStageDone(c, s) =>
            /\ attempts[c][s] = req[c].retry[s] + 1
            /\ created[c][s] = (req[c].retry[s] + 1) * req[c].wc[s]
            /\ deleted[c][s] = created[c][s]
            /\ stageLast[c][s] = "FAILED"

\* C9 amended: such a stage was attempted N+1 times, (N+1) x worker_count pods
\* were created and a delete was issued for each of them (at most that many
\* pods were in fact deleted), and its last event is failed.
C9_RetriesCreateAndIssueDelete ==
    \A c \in Calls, s \in AllStages :
        AlwaysFailingStageDone(c, s) =>
            /\ attempts[c][s] = req[c].retry[s] + 1
            /\ created[c][s] = (req[c].retry[s] + 1) * req[c].wc[s]
            /\ deleteIssued[c][s] = created[c][s]
            /\ deleted[c][s] <= created[c][s]
            /\ stageLast[c][s] = "FAILED" /\ stageStatus[c][s] = "FAILED"

\* A stage with max_attempts = 1 and two workers has failed twice.
C9_Witness ==
    \E c \in Calls, s \in AllStages :
        /\ AlwaysFailingStageDone(c, s)
        /\ req[c].retry[s] = 1 /\ req[c].wc[s] = 2
        /\ created[c][s] = 4 /\ deleteIssued[c][s] = 4

\* C2 as stated, in the form a finite run refutes: once the stream of a
\* cancelled pipeline is closed every worker has returned and no further
\* delete is issued, so every pod the pipeline created is deleted by then.
C2_CancelledPodsDeleted ==
    \A c \in Calls :
        (cancelled[c] /\ closed[c]) =>
            \A s \in AllStages, i \in WorkerIdx : pods[PodName(c, s, i)] = "None"

\* C2 amended: after a pipeline is cancelled, eventually its progress stream
\* is closed, every worker has returned, and a delete has been issued for
\* every pod the pipeline created, the cancelled context notwithstanding.
C2_CancelIssuesDeletesAndCloses ==
    \A c \in Calls :
        cancelled[c] ~>
            /\ closed[c]
            /\ \A s \in AllStages :
                  /\ deleteIssued[c][s] = created[c][s]
                  /\ \A i \in WorkerIdx : wpc[c][s][i] \in {"none", "done"}

\* A cancelled pipeline has closed its stream; a worker that was waiting
\* when the cancellation came had its pod deleted.
C2_Witness ==
    \E c \in Calls :
        /\ cancelled[c] /\ closed[c]
        /\ \E s \in AllStages, i \in WorkerIdx :
              /\ wres[c][s][i] = "cancelled" /\ wdel[c][s][i] = "ok"
              /\ created[c][s] >= 1 /\ deleteIssued[c][s] = created[c][s]

\* Every depends_on id is a stage of the request and there is no cycle.
ValidDag(r) ==
    /\ \A s \in r.stages : r.deps[s] \subseteq r.stages
    /\ ~HasCycle(r)

\* The levels holding stage s.
LevelsOf(order, s) == {k \in 1..Len(order) : s \in order[k]}

\* The levels partition the stages, and every dependency of a stage sits in
\* a strictly earlier level than the stage.
LevelsOk(r, order) ==
    /\ \A k \in 1..Len(order) : order[k] # {} /\ order[k] \subseteq r.stages
    /\ \A s \in r.stages : Cardinality(LevelsOf(order, s)) = 1
    /\ \A s \in r.stages : \A d \in r.deps[s] :
          \A ks \in LevelsOf(order, s), kd \in LevelsOf(order, d) : kd < ks

\* C7: for a request whose depends_on edges form a valid DAG, Execute does
\* not fail, and the execution order it builds partitions the stages into
\* levels with every dependency edge going from an earlier level to a
\* strictly later one (so none inside a level).
C7_LevelsRespectDependencies ==
    \A c \in Calls :
        (req[c].call /\ ~req[c].nil /\ ValidDag(req[c])) =>
            /\ callResult[c] # "internal"
            /\ callpc[c] = "streaming" => LevelsOk(req[c], stageOrder[c])

\* The order of a three-stage graph with three levels has been built:
\* c depends on a and b, b depends on a.
C7_Witness ==
    \E c \in Calls :
        /\ callpc[c] = "streaming"
        /\ req[c].stages = {"a", "b", "c"}
        /\ req[c].deps = [a |-> {}, b |-> {"a"}, c |-> {"a", "b"}]
        /\ stageOrder[c] = <<{"a"}, {"b"}, {"c"}>>

\* The executor of call c is running.
Executing(c) == InSendLoop(c) /\ epc[c] \notin {"idle", "done"}

\* C10 as stated: no two calls execute the same pipeline id at once.
C10_OneExecutionPerId ==
    \A c \in Calls, d \in Calls :
        (c # d /\ Executing(c) /\ Executing(d)) => req[c].id # req[d].id

\* ------------------------------------------------- claims, log streaming
\* C11: within one session the Sequence of each ACK response is one more than
\* the number of ACK responses the session's streams queued before it (the
\* ACKs of a session are numbered 1, 2, 3, ..., no duplicate and no gap),
\* whatever the interleaving of the StreamLogs calls bound to the session.
C11_AckSequenceByOne ==
    [][\A st \in Streams :
          (LogAck(st) /\ lpc'[st] = "recv") => resp'.seq = acks[cur[st]] + 1]_vars

\* An entry that is nil or lacks its worker id, task id or message.
Malformed(e) == e.nil \/ MissingField(e)

\* The checks of stream st settle what becomes of its entry in this step.
EntryHandled(st) ==
    lpc[st] \in {"entry", "process"} /\ lpc'[st] \notin {"entry", "process"}

\* C12: an entry that is nil or lacks its worker id, task id or message is
\* answered DROP and is not handed to the forwarding, whether or not the
\* stream is already bound to a session (the stream's context not being done).
C12_MalformedEntryDropped ==
    [][\A st \in Streams :
          (EntryHandled(st) /\ Malformed(entry[st]) /\ ~lctx[st])
              => (resp'.status = "DROP" /\ lpc'[st] # "forward")]_vars

\* A registration request that passes the argument checks.
ValidRegistration(r) == ~r.nil /\ r.worker # "" /\ r.task # ""

\* C13: RegisterWorker for a worker id that has an active session returns
\* ALREADY_REGISTERED with the id of that session, creates no session and
\* changes none.
C13_RegistrationIdempotent ==
    [][\A r \in RegRequests :
          (RegisterWorker(r) /\ ValidRegistration(r)
              /\ findSessionByWorker(r.worker) # {})
          => /\ resp'.status = "ALREADY_REGISTERED"
             /\ resp'.session \in findSessionByWorker(r.worker)
             /\ sessions' = sessions]_vars

\* A registration was answered ALREADY_REGISTERED with the id of a session
\* that is active and has already counted a forwarded entry.
C13_Witness ==
    /\ resp.status = "ALREADY_REGISTERED"
    /\ sessions[resp.session].active
    /\ sessions[resp.session].logCount > 0

\* C14: a log entry goes to the forwarding only if, when it is processed, the
\* map holds an active session for the entry's own worker id; an entry whose
\* worker has none (never registered, deactivated or swept) is answered DROP
\* (the stream's context not being done).
C14_ForwardOnlyWithActiveSession ==
    [][\A st \in Streams :
          (LogLookup(st) /\ ~Malformed(entry[st]) /\ ~lctx[st]
              /\ findSessionByWorker(entry[st].worker) = {})
              => (resp'.status = "DROP" /\ lpc'[st] # "process")]_vars

\* Stream st gives up the forwarding of its entry in this step.
ForwardGivenUp(st) ==
    lpc[st] \in {"forward", "wait"} /\ lpc'[st] \notin {"forward", "wait", "load"}

\* C15 as stated: a RETRY that answers an entry whose forwarding failed comes
\* after the initial attempt and maxRetries retries.
C15_RetryAfterAllAttempts ==
    (resp.status = "RETRY" /\ resp.attempts > 0) => resp.attempts = maxRetries + 1

\* C15, amended: when the forwarding of a valid entry is given up and the
\* stream's context is not cancelled, the response is RETRY and the loop has
\* called forwardLogEntry maxRetries + 1 times, the initial attempt and
\* maxRetries retries; a forwarding given up at a retry wait is given up on
\* a cancelled context, after at least one and at most maxRetries calls, and
\* is answered RETRY or not at all, the call returning; cancelled or not, the
\* step advances neither the log count of any session nor the number of its
\* ACKs.
C15_RetryAfterAllAttemptsUnlessCancelled ==
    [][\A st \in Streams :
          ForwardGivenUp(st)
          => /\ ~lctx[st] => resp' = MkResponse("RETRY", 0, maxRetries + 1)
             /\ lpc[st] = "wait"
                => /\ lctx[st]
                   /\ attempt[st] \in 1..maxRetries
                   /\ \/ resp' = MkResponse("RETRY", 0, attempt[st])
                      \/ resp' = NoResponse /\ lpc'[st] = "closed"
             /\ \A sid \in SessionIds : sessions'[sid].logCount = sessions[sid].logCount
             /\ acks' = acks]_vars

\* An entry was answered RETRY after maxRetries + 1 attempts on a stream whose
\* session had an earlier entry acknowledged: count and ACKs stay at one.
C15_Witness ==
    /\ resp.status = "RETRY"
    /\ resp.attempts = maxRetries + 1
    /\ \E st \in Streams :
          /\ cur[st] # 0
          /\ ~lctx[st]
          /\ sessions[cur[st]].logCount = 1
          /\ acks[cur[st]] = 1

\* ------------------------------------------------ claims, worker manager
\* CreateAndWaitForWorker of worker i of stage s returns in this step.
WorkerReturns(c, s, i) ==
    wres[c][s][i] = "none" /\ wres'[c][s][i] # "none"

\* C16: CreateAndWaitForWorker returns nil only in a step whose GetPod reads
\* phase Succeeded; it returns the pod's failure when the step reads phase
\* Failed; it returns the cancellation error only from the wait with the
\* context done, no terminal phase having been read before.
C16_ResultFollowsObservedPhase ==
    [][\A c \in Calls : \A s \in StagesOf(c) : \A i \in WorkerIdx :
          WorkerReturns(c, s, i)
          => /\ wres'[c][s][i] = "succeeded" =>
                    (wpc[c][s][i] = "wait" /\ pods[PodName(c, s, i)] = "Succeeded")
             /\ wres'[c][s][i] = "podfailed" =>
                    (wpc[c][s][i] = "wait" /\ pods[PodName(c, s, i)] = "Failed")
             /\ wres'[c][s][i] = "cancelled" =>
                    (wpc[c][s][i] = "wait" /\ cancelled[c])
             /\ wres'[c][s][i] = "createfailed" => wpc[c][s][i] = "create"]_vars

\* Of the two workers of a stage one returned nil and one the cancellation
\* error.
C16_Witness ==
    \E c \in Calls : \E s \in StagesOf(c) :
        /\ wres[c][s][1] = "succeeded"
        /\ wres[c][s][2] = "cancelled"

\* -------------------------------------------- claims, request validation
\* The request of call c has an empty pipeline id or an empty stage list.
EmptyIdOrStages(c) ==
    req[c].call /\ ~req[c].nil /\ (req[c].id = "" \/ req[c].stages = {})

\* C19: an ExecutePipeline call whose request has an empty pipeline id or an
\* empty stage list returns invalid_argument and nothing else, never stores
\* an executor in the registry and creates no pod.
C19_EmptyRequestRejected ==
    \A c \in Calls :
        EmptyIdOrStages(c)
        => /\ callpc[c] \in {"idle", "returned"}
           /\ callResult[c] = (IF callpc[c] = "idle" THEN "none" ELSE "invalid_argument")
           /\ \A id \in PipelineIds : pipelineExecutors[id] = "none"
           /\ epc[c] = "idle"
           /\ \A s \in AllStages : created[c][s] = 0
           /\ \A n \in PodNames : pods[n] = "None"

\* A call with an empty stage list has returned invalid_argument.
C19_Witness ==
    \E c \in Calls :
        /\ EmptyIdOrStages(c)
        /\ req[c].id # ""
        /\ callResult[c] = "invalid_argument"

\* C20: a request with a stage of worker count zero is refused at validation:
\* its call never gets past the argument checks, and no stage with zero
\* workers is ever reported COMPLETED.
C20_ZeroWorkerStageRejected ==
    \A c \in Calls : \A s \in StagesOf(c) :
        req[c].wc[s] = 0
        => /\ callpc[c] \in {"idle", "returned"}
           /\ stageStatus[c][s] # "COMPLETED"
           /\ stageLast[c][s] # "COMPLETED"

\* ------------------------------------------------- claims, ScaleUp batch
\* The workers of the batch that returned an error.
BatchFailed == {i \in BatchOf(scaleReq) : bres[i] # "succeeded"}

\* C17: RunMultipleWorkers returns only after every one of its N workers has
\* returned, each on its own outcome (none is cancelled because another one
\* failed) and its status has been collected; it returns an error exactly when
\* some worker failed, and the error names the failed workers, all of them and
\* nothing else.
C17_BatchReturnsAfterAllWorkers ==
    batchRet # "none"
    => /\ \A i \in BatchOf(scaleReq) :
             bpc[i] = "done" /\ bres[i] \in {"succeeded", "podfailed", "createfailed"}
       /\ received = scaleReq.count
       /\ results = <<>>
       /\ (batchRet = "error") <=> (BatchFailed # {})
       /\ {errors[k] : k \in 1..Len(errors)} = {BatchName(i) : i \in BatchFailed}
       /\ Len(errors) = Cardinality(BatchFailed)

\* A batch of three returned its error: one worker succeeded, the pod of one
\* failed, the pod of one could not be created.
C17_Witness ==
    /\ batchRet = "error"
    /\ \E i \in BatchIdx : bres[i] = "succeeded"
    /\ \E i \in BatchIdx : bres[i] = "podfailed"
    /\ \E i \in BatchIdx : bres[i] = "createfailed"

\* C18 as stated, for the workers whose pod was created: each has run to a
\* terminal phase when it returns, and its pod is then gone.
C18_BatchPodsRunAndDeleted ==
    \A i \in BatchIdx :
        (bpc[i] = "done" /\ bres[i] # "createfailed")
        => (bres[i] \in {"succeeded", "podfailed"} /\ bpods[i] = "None")

\* C18, amended: once its batch is started ScaleUp can return whatever the
\* workers have done, and the step in which it returns gives SUCCESS with
\* worker_count pod names and leaves the batch as it is; whether or not the
\* context of the call is done, a worker of the batch ends its wait only on
\* a terminal phase of its pod, never on a cancellation, and then issues the
\* delete, after which the pod is gone unless the delete failed; a worker
\* whose pod could not be created returns that error at once, with no pod
\* and no delete.
C18_AcceptedAndDetached ==
    /\ [](scalepc = "launched" => ENABLED ScaleUpReturn)
    /\ [][/\ (scaleResp' # scaleResp /\ scaleResp'.status = "SUCCESS")
             => /\ scaleResp'.count = scaleReq.count
                /\ Len(scaleResp'.names) = scaleReq.count
                /\ \A i \in BatchOf(scaleReq) : scaleResp'.names[i] = BatchName(i)
                /\ batchVars' = batchVars
          /\ \A i \in BatchIdx :
                /\ (bpc[i] = "wait" /\ bpc'[i] = "done")
                   => /\ bres'[i] = PollOutcome(bpods[i])
                      /\ bres'[i] \in {"succeeded", "podfailed"}
                      /\ bdel'[i] \in {"ok", "error"}
                      /\ bdel'[i] = "ok" => bpods'[i] = "None"
                /\ (bpc[i] = "create" /\ bpc'[i] # "create")
                   => \/ bpc'[i] = "wait" /\ bpods'[i] = "Active"
                      \/ /\ bpc'[i] = "done" /\ bres'[i] = "createfailed"
                         /\ bpods'[i] = "None" /\ bdel'[i] = "none"]_vars

\* ScaleUp has returned SUCCESS and the context of the call is done; of the
\* workers of the batch one is still waiting on its running pod, one has
\* returned nil with its pod deleted, and one has returned at once for want
\* of a pod.
C18_Witness ==
    /\ scaleResp.status = "SUCCESS"
    /\ scaleCtx
    /\ \E i \in BatchIdx : bpc[i] = "wait" /\ bpods[i] = "Active"
    /\ \E i \in BatchIdx :
          bpc[i] = "done" /\ bres[i] = "succeeded" /\ bdel[i] = "ok" /\ bpods[i] = "None"
    /\ \E i \in BatchIdx :
          bpc[i] = "done" /\ bres[i] = "createfailed" /\ bdel[i] = "none" /\ bpods[i] = "None"

\* ---------------------------------------------------- claims, egress client

\* C21: the client holds at most one outbound log stream per worker id, and
\* StartLogStream for a worker id that has a stream in the map returns the
\* "already exists" error and leaves every stream, the registered one and its
\* counters included, as it was.
C21_OneStreamPerWorker ==
    [][ /\ \A w \in WorkerIds : Cardinality(activeStreams(w))' <= 1
        /\ \A w \in WorkerIds :
             StartLogStream(w) /\ activeStreams(w) # {}
                => /\ egressRet' = "log stream already exists"
                   /\ logStreams' = logStreams ]_vars

\* A second StartLogStream for a worker whose stream has counted a log entry
\* was refused.
C21_Witness ==
    /\ egressRet = "log stream already exists"
    /\ \E n \in DOMAIN logStreams :
         logStreams[n].inMap /\ logStreams[n].logCount > 0

\* ------------------------------------------------- claims, worker spec names

\* The characters of a DNS label.
LabelChars ==
    {"a", "b", "c", "d", "e", "f", "g", "h", "i", "j", "k", "l", "m", "n", "o",
     "p", "q", "r", "s", "t", "u", "v", "w", "x", "y", "z", "-"}
        \cup {DigitChars[k] : k \in 1..10}

\* A DNS label: 1 to 63 lower-case letters, digits and hyphens, no hyphen at
\* either end.
IsDnsLabel(name) ==
    /\ Len(name) \in 1..maxLabelLen
    /\ \A k \in 1..Len(name) : name[k] \in LabelChars
    /\ name[1] # "-"
    /\ name[Len(name)] # "-"

\* C22: every worker spec name made for a pipeline stage or by ScaleUp is a
\* DNS label of at most 63 characters: lower case, no '_', no '.'.
C22_WorkerNamesAreDnsLabels ==
    \A k \in 1..Len(names) : IsDnsLabel(names[k])

\* ------------------------------------------------- claims, progress stream

\* C23: the progress stream of an execution is closed once and stays closed;
\* nothing is pushed on it after the close; and whenever it is closed no stage
\* goroutine and no worker call of that pipeline is still running.
C23_ClosedOnceNothingAfter ==
    [][ \A c \in Calls :
          /\ (PipelineCompleted(c) \/ handlePipelineFailure(c)) => ~closed[c]
          /\ closed[c] =>
                /\ closed'[c]
                /\ emitCount'[c] = emitCount[c]
                /\ Len(progressStream'[c]) <= Len(progressStream[c])
          /\ closed'[c] =>
                /\ epc'[c] = "done"
                /\ \A s \in AllStages :
                      /\ spc'[c][s] \in {"none", "done"}
                      /\ \A i \in WorkerIdx : wpc'[c][s][i] \in {"none", "done"} ]_vars

\* The stream was closed after a stage with two workers had failed.
C23_Witness ==
    \E c \in Calls :
        /\ closed[c]
        /\ \E s \in StagesOf(c) :
              /\ req[c].wc[s] = 2
              /\ stageErr[c][s]
              /\ \A i \in WorkersOf(c, s) : wpc[c][s][i] = "done"

\* --------------------------------------------------- claims, pod cleanup

\* C24: whether the cleanup delete succeeds or fails, CreateAndWaitForWorker
\* returns what the wait returned: the outcome of the phase read when the wait
\* ended on a poll, the cancellation error when it ended on the context.
C24_CleanupNeverChangesOutcome ==
    [][\A c \in Calls : \A s \in StagesOf(c) : \A i \in WorkerIdx :
          /\ (WorkerPoll(c, s, i) /\ wpc'[c][s][i] = "done")
                => /\ wdel'[c][s][i] \in {"ok", "error"}
                   /\ wres'[c][s][i] = PollOutcome(pods[PodName(c, s, i)])
          /\ WorkerCtxDone(c, s, i)
                => /\ wdel'[c][s][i] \in {"ok", "error"}
                   /\ wres'[c][s][i] = "cancelled"]_vars

\* A worker whose delete failed returned nil, and one whose delete failed
\* returned the failure of its pod.
C24_Witness ==
    /\ \E c \in Calls : \E s \in StagesOf(c) : \E i \in WorkerIdx :
          wdel[c][s][i] = "error" /\ wres[c][s][i] = "succeeded"
    /\ \E c \in Calls : \E s \in StagesOf(c) : \E i \in WorkerIdx :
          wdel[c][s][i] = "error" /\ wres[c][s][i] = "podfailed"

\* ------------------------------------------------------- claims, levels

\* Stage s of call c has been started: its goroutine runs or ran, it emitted a
\* running event, or a pod of it was created.
StageStarted(c, s) ==
    \/ spc[c][s] # "none"
    \/ attempts[c][s] > 0
    \/ created[c][s] > 0
    \/ stageStatus[c][s] \in {"RUNNING", "RETRYING", "COMPLETED", "FAILED"}

\* C25: levels run one after the other: a stage of a later level is started
\* only when every stage of every earlier level is COMPLETED, and once a stage
\* of a level has returned its error no stage of a later level is started.
C25_LevelsSequential ==
    \A c \in Calls : \A k \in 1..Len(stageOrder[c]) :
        \A j \in (k + 1)..Len(stageOrder[c]) : \A s2 \in stageOrder[c][j] :
            /\ StageStarted(c, s2)
                  => \A s1 \in stageOrder[c][k] : stageStatus[c][s1] = "COMPLETED"
            /\ (\E s1 \in stageOrder[c][k] : stageErr[c][s1]) => ~StageStarted(c, s2)

\* A pod of a second-level stage was created after the first-level stage had
\* failed once and completed on its retry.
C25_Witness ==
    \E c \in Calls :
        /\ Len(stageOrder[c]) = 2
        /\ \E s2 \in stageOrder[c][2] : \E s1 \in stageOrder[c][1] :
              created[c][s2] > 0 /\ retryCount[c][s1] > 0

\* C26: fail-fast: once a stage of a level has returned its error, the
\* pipeline context is cancelled, so a stage of the same level that is still
\* in flight runs under a cancelled context.
C26_FailFastCancels ==
    \A c \in Calls : \A k \in 1..Len(stageOrder[c]) :
        \A s1 \in stageOrder[c][k] : \A s2 \in stageOrder[c][k] :
            (stageErr[c][s1] /\ spc[c][s2] \notin {"none", "done"}) => cancelled[c]

\* ------------------------------------------------- claims, response path

\* C27: when stream.Send of a response fails, the session bound to the call
\* is deactivated by that step.
C27_SendFailureDeactivates ==
    [][\A st \in Streams :
          (ResponseSend(st) /\ rpc'[st] = "sendfailed" /\ currentSession[st] = "active")
             => currentSession'[st] = "inactive"]_vars

\* ------------------------------------------------- claims, session sweep

\* C28: after a run of CleanupInactiveSessions the map holds no inactive
\* session and no session created longer ago than the stream timeout, and
\* every session that was active and younger than the timeout is in the map
\* as it was.
C28_SweepRemovesInactiveAndOld ==
    [][SweepSessions =>
          \A sid \in DOMAIN timedSessions :
             /\ timedSessions'[sid].inMap
                   => /\ timedSessions'[sid].active
                      /\ now - timedSessions'[sid].createdAt <= streamTimeout
             /\ ( /\ timedSessions[sid].inMap
                  /\ timedSessions[sid].active
                  /\ now - timedSessions[sid].createdAt < streamTimeout )
                   => timedSessions'[sid] = timedSessions[sid]]_vars

\* A sweep removed an active session for its age, and an active session
\* younger than the timeout is still in the map.
C28_Witness ==
    \E s1 \in DOMAIN timedSessions : \E s2 \in DOMAIN timedSessions :
        /\ ~timedSessions[s1].inMap
        /\ timedSessions[s1].active
        /\ now - timedSessions[s1].createdAt > streamTimeout
        /\ timedSessions[s2].inMap
        /\ timedSessions[s2].active
        /\ now - timedSessions[s2].createdAt < streamTimeout

\* ------------------------------------------------- claims, stage status

\* The moves of a stage's status the specification allows, and the creation
\* of the record with status PENDING.
StatusMoves ==
    {<<"NONE", "PENDING">>, <<"PENDING", "RUNNING">>, <<"RUNNING", "COMPLETED">>,
     <<"RUNNING", "FAILED">>, <<"RUNNING", "RETRYING">>, <<"RETRYING", "RUNNING">>,
     <<"PENDING", "SKIPPED">>}

\* C29: the status of a stage changes only along the allowed moves, so
\* COMPLETED, FAILED and SKIPPED are final: a stage set to FAILED never changes
\* status again.
C29_StatusMovesOnlyForward ==
    [][\A c \in Calls : \A s \in AllStages :
          stageStatus'[c][s] # stageStatus[c][s]
             => <<stageStatus[c][s], stageStatus'[c][s]>> \in StatusMoves]_vars

\* ------------------------------------------------- claims, stage events

\* The terminal statuses of a stage event.
StageTerminal == {"COMPLETED", "FAILED"}

\* C30: the events of a stage are emitted in causal order: a terminal event
\* of a stage follows a running event of that stage, no event of the stage
\* follows its terminal event, and when the stream is closed every stage that
\* emitted a running event has emitted its terminal event.
C30_StageEventsCausal ==
    [][\A c \in Calls : \A s \in AllStages :
          /\ (stageLast'[c][s] \in StageTerminal /\ stageLast[c][s] \notin StageTerminal)
                => (attempts[c][s] > 0 /\ stageLast[c][s] = "RUNNING")
          /\ (stageLast[c][s] \in StageTerminal /\ emitCount'[c] # emitCount[c])
                => emitLast'[c].stageId # s
          /\ (closed'[c] /\ attempts'[c][s] > 0)
                => stageLast'[c][s] \in StageTerminal]_vars

\* ------------------------------------------- claims, names in stage events

\* C31: every stage event, the first running event included, carries the
\* intended worker pod names of its stage: one name per index 1..worker_count,
\* no name twice, also after a retry.
C31_StageEventsCarryWorkerNames ==
    \A c \in Calls :
        emitLast[c].stageId \in StagesOf(c)
           => emitLast[c].names = Iota(1, req[c].wc[emitLast[c].stageId])

\* ------------------------------------------------- claims, gateway errors
\* C32: a CreateAndWaitForWorker call that has returned ends with every
\* gateway error it met: with "worker creation failed" when no pod was
\* created, and with the get_pod error when GetPod returned one during the wait.
C32_GatewayErrorsSurface ==
    \A m \in ManagerCalls :
        mpc[m] = "done"
           => /\ (mpod[m] = "None" => mret[m] = "worker creation failed")
              /\ (getPodErrors[m] > 0 => mret[m] = "worker failed: get pod error")

\* ------------------------------------------------- claims, registry cleanup
\* C33: the registry entry an ExecutePipeline call created is gone once the
\* call has returned, on every exit path past the store: the normal end of the
\* stream, the failure to start the executor, a failed Send of an event.
C33_EntryRemovedOnEveryExit ==
    \A c \in Calls :
        callpc[c] = "returned" /\ callResult[c] \in {"ok", "internal", "send_error"}
           => pipelineExecutors[req[c].id] # c

\* A call returned on a failed Send while its executor was still running, and
\* its pipeline id has no entry.
C33_Witness ==
    \E c \in Calls :
        /\ callpc[c] = "returned" /\ callResult[c] = "send_error"
        /\ epc[c] # "done"
        /\ pipelineExecutors[req[c].id] = "none"

\* ------------------------------------------------- claims, session locking
\* The fields of a session the claim names: the counters, the last activity
\* and the active flag.
SessionFields ==
    <<boundSession.logCount, boundSession.errorCount, boundSession.lastActive,
      boundSession.active>>

\* C34: every step of a StreamLogs call that writes a counter, the last
\* activity or the active flag of its session is taken while the call holds
\* the session's own mutex.
C34_SessionWritesUnderSessionLock ==
    [][\A st \in Streams :
          kpc'[st] # kpc[st] /\ SessionFields' # SessionFields => sessionMu = st]_vars

\* C37: the stop channel of a session is closed at most once: no
\* deactivateSession finds the session in the map with its channel closed,
\* also when two StreamLogs calls bound to the session both end.
C37_StopChanClosedOnce == ~panicked

\* ------------------------------------------------------- claims, shutdown
\* C35: once the shutdown signal has arrived, every executing pipeline is
\* cancelled and the wait for the handlers is bounded, so that Start
\* eventually returns.
C35_ShutdownReturns == (startpc = "stopping") ~> (startpc = "returned")

\* ------------------------------------------------- claims, registrations
\* C36: the session map holds at most one active session per worker id, so
\* the count of a worker's active sessions stays below the cap and no
\* registration is answered SERVER_FULL.
C36_OneActiveSessionPerWorker ==
    /\ \A w \in WorkerIds :
          /\ Cardinality(ActiveSessionsOf(w)) <= 1
          /\ Cardinality(ActiveSessionsOf(w)) < maxSessionsPerWorker
    /\ regStatus # "SERVER_FULL"

\* A worker registered again after its first session was deactivated and
\* before the sweep: the map holds two sessions of the worker, and a further
\* registration was answered ALREADY_REGISTERED.
C36_Witness ==
    \E w \in WorkerIds :
        /\ Cardinality({sid \in DOMAIN regSessions :
                           regSessions[sid].inMap /\ regSessions[sid].worker = w}) >= 2
        /\ ActiveSessionsOf(w) # {}
        /\ regStatus = "ALREADY_REGISTERED"

\* ------------------------------------------- claims, response handler exit
\* C38: the exit of a stream's response handler removes only that stream
\* from the map: every other stream, a new stream of the same worker started
\* after CloseLogStream included, stays registered.
C38_HandlerExitRemovesOwnStream ==
    [][\A n \in DOMAIN logStreams :
          handleStreamResponsesExit(n)
             => \A m \in DOMAIN logStreams \ {n} :
                   logStreams'[m].inMap = logStreams[m].inMap]_vars

\* ------------------------------------------------ claims, final statuses
\* C39: once the progress stream is closed, every stage record of the
\* pipeline is in a final status (completed, failed or skipped), also when the
\* pipeline was cancelled during a retry delay.
C39_ClosedMeansFinalStatuses ==
    \A c \in Calls :
        closed[c] =>
            \A s \in StagesOf(c) : stageStatus[c][s] \in {"COMPLETED", "FAILED", "SKIPPED"}

\* ------------------------------------------- claims, registry and executor
\* C40: whenever the pipeline id of a returned ExecutePipeline call is absent
\* from the registry, no stage of that execution is in flight and none of its
\* pods exists, also when the call returned early on a failed Send.
C40_AbsentMeansNothingInFlight ==
    \A c \in Calls :
        /\ callpc[c] = "returned"
        /\ callResult[c] \in {"ok", "internal", "send_error"}
        /\ pipelineExecutors[req[c].id] = "none"
        => \A s \in StagesOf(c) :
              /\ spc[c][s] \in {"none", "done"}
              /\ \A i \in WorkerIdx : pods[PodName(c, s, i)] = "None"

====
